---------------------------- MODULE Spec2Model ----------------------------
(***************************************************************************)
(* Isentropic nozzle sizing (DES-001, thruster_performance_sizing.py) and  *)
(* its independent verification (VER-001_independent_simulation.py).       *)
(*                                                                         *)
(* Python floats are modelled as decimal floating-point numbers with an    *)
(* eight-digit mantissa: a number is a record [m, e] standing for          *)
(* m * 10^e, with m = 0 or 10^7 <= |m| < 10^8.  Every arithmetic result is *)
(* rounded (truncated) to eight digits, as IEEE doubles round to 53 bits.  *)
(***************************************************************************)
EXTENDS Integers, Sequences, FiniteSets, TLC

(***************************************************************************)
(* Floating-point arithmetic                                               *)
(***************************************************************************)
IAbs(n) == IF n < 0 THEN -n ELSE n

ISgn(n) == IF n > 0 THEN 1 ELSE IF n < 0 THEN -1 ELSE 0

Zero == [m |-> 0, e |-> 0]

Pow10Tab == <<1, 10, 100, 1000, 10000, 100000, 1000000, 10000000, 100000000, 1000000000>>

\* 10^n for n in 0 .. 9.
Pow10(n) == Pow10Tab[n + 1]

\* Number of decimal digits of m > 0.
NumDigits(m) == Cardinality({k \in 1..10 : m >= Pow10Tab[k]})

\* m * 10^e with the d-digit m > 0 cut or padded to eight digits.
Scale(m, e, d) ==
    IF d > 8 THEN [m |-> m \div Pow10(d - 8), e |-> e + (d - 8)]
    ELSE [m |-> m * Pow10(8 - d), e |-> e - (8 - d)]

NormPos(m, e) == IF m = 0 THEN Zero ELSE Scale(m, e, NumDigits(m))

WithSign(s, n) == [m |-> s * n.m, e |-> n.e]

\* The float nearest m * 10^e toward zero.
Fl(m, e) == WithSign(ISgn(m), NormPos(IAbs(m), e))

One == Fl(1, 0)

Two == Fl(2, 0)

FNeg(a) == [m |-> -a.m, e |-> a.e]

FAbs(a) == [m |-> IAbs(a.m), e |-> a.e]

\* x / 10^d, truncated toward zero.
ShiftDown(x, d) == ISgn(x) * (IAbs(x) \div Pow10(d))

FAddOrdered(hi, lo) ==
    IF hi.e - lo.e >= 10 THEN hi
    ELSE Fl(hi.m * 10 + ShiftDown(lo.m * 10, hi.e - lo.e), hi.e - 1)

FAdd(a, b) ==
    IF a.m = 0 THEN b
    ELSE IF b.m = 0 THEN a
    ELSE FAddOrdered(IF a.e >= b.e THEN a ELSE b, IF a.e >= b.e THEN b ELSE a)

FSub(a, b) == FAdd(a, FNeg(b))

\* Leading eight or nine digits of the product of two eight-digit mantissas.
FMulAbs(A, B) ==
    (A \div 10000) * (B \div 10000) * 10
    + ((A \div 10000) * (B % 10000) + (A % 10000) * (B \div 10000)
       + ((A % 10000) * (B % 10000)) \div 10000) \div 1000

FMul(a, b) ==
    IF a.m = 0 \/ b.m = 0 THEN Zero
    ELSE Fl(ISgn(a.m) * ISgn(b.m) * FMulAbs(IAbs(a.m), IAbs(b.m)), a.e + b.e + 7)

\* Long division: the quotient q and remainder r so far, n digits to go.
RECURSIVE LongDiv(_, _, _, _)
LongDiv(r, B, q, n) ==
    IF n = 0 THEN q
    ELSE LongDiv((r * 10) % B, B, q * 10 + (r * 10) \div B, n - 1)

\* b is not zero.
FDiv(a, b) ==
    IF a.m = 0 THEN Zero
    ELSE Fl(ISgn(a.m) * ISgn(b.m)
              * LongDiv(IAbs(a.m) % IAbs(b.m), IAbs(b.m), IAbs(a.m) \div IAbs(b.m), 8),
            a.e - b.e - 8)

FLt(a, b) == FSub(a, b).m < 0

FLe(a, b) == FSub(a, b).m <= 0

FGt(a, b) == FLt(b, a)

FGe(a, b) == FLe(b, a)

FMin(a, b) == IF FLt(b, a) THEN b ELSE a

\* Newton's iteration for the integer square root of 0 < n < 10^9.
RECURSIVE ISqrtIter(_, _)
ISqrtIter(n, x) ==
    IF (x + n \div x) \div 2 >= x THEN x ELSE ISqrtIter(n, (x + n \div x) \div 2)

NewtonSqrt(a, x) == FDiv(FAdd(x, FDiv(a, x)), Two)

\* Square root of a > 0: integer root of the mantissa, then two Newton steps.
FSqrt(a) ==
    IF a.m = 0 THEN Zero
    ELSE NewtonSqrt(a, NewtonSqrt(a,
            Fl(ISqrtIter(IF a.e % 2 = 1 THEN a.m * 10 ELSE a.m, 31623),
               (IF a.e % 2 = 1 THEN a.e - 1 ELSE a.e) \div 2)))

\* floor(a) as an integer, for |a| < 10^9.
FFloor(a) ==
    IF a.e >= 0 THEN a.m * Pow10(a.e)
    ELSE IF a.e <= -9 THEN (IF a.m >= 0 THEN 0 ELSE -1)
    ELSE IF a.m >= 0 THEN a.m \div Pow10(-a.e)
    ELSE -((-a.m + Pow10(-a.e) - 1) \div Pow10(-a.e))

\* Evaluate x, then v: the value of v.
Strict(x, v) == <<x, v>>[2]

(* numpy's not-a-number and infinity.  They are not numbers of the form    *)
(* m * 10^e: arithmetic on them is written out where the scripts can       *)
(* produce them.                                                           *)
NaN == [nan |-> TRUE]
Inf == [inf |-> TRUE]
IsNaN(x) == x = NaN
IsFinite(x) == x # NaN /\ x # Inf

\* np.sqrt: the square root of a negative number is nan (with a warning).
np_sqrt(a) == IF a.m < 0 THEN NaN ELSE FSqrt(a)

\* Division of a numpy float: nan propagates, x / 0 is inf or nan (with a warning).
np_divide(a, b) ==
    IF IsNaN(a) THEN NaN
    ELSE IF b.m = 0 THEN (IF a.m = 0 THEN NaN ELSE Inf)
    ELSE FDiv(a, b)

\* Multiplication of a number by a numpy float.
np_multiply(a, b) == IF IsNaN(b) THEN NaN ELSE FMul(a, b)

LN10 == Fl(23025851, -7)

LN125 == Fl(22314355, -8)

\* Mantissas of 1.25^k, k = 0 .. 10, at exponent -7.
Pow125Tab == <<10000000, 12500000, 15625000, 19531250, 24414062, 30517578, 38146972, 47683715, 59604644, 74505805, 93132257>>

Third == Fl(33333333, -8)

Fifth == Fl(2, -1)

Seventh == Fl(14285714, -8)

\* atanh z = z (1 + z^2 (1/3 + z^2 (1/5 + z^2 / 7))) for |z| <= 1/9.
AtanhHorner(z, z2) ==
    Strict(z2, FMul(z, FAdd(One, FMul(z2, FAdd(Third, FMul(z2, FAdd(Fifth, FMul(z2, Seventh))))))))

Atanh(z) == Strict(z, AtanhHorner(z, FMul(z, z)))

\* ln of u * 1.25^k * 10^e for 1 <= u < 1.25.
LnParts(u, k, e) ==
    Strict(u, FAdd(FMul(Two, Atanh(FDiv(FSub(u, One), FAdd(u, One)))),
                   FAdd(FMul(Fl(k, 0), LN125), FMul(Fl(e, 0), LN10))))

LnReduce(w, k, e) == Strict(k, LnParts(FDiv(w, [m |-> Pow125Tab[k + 1], e |-> -7]), k, e))

\* Natural logarithm of a > 0.
FLn(a) ==
    LnReduce([m |-> a.m, e |-> -7],
             Cardinality({i \in 2..11 : a.m >= Pow125Tab[i]}),
             a.e + 7)

\* ln(2) / 8.
LN2_8 == Fl(86643398, -9)

\* 2^(i/8), i = 0 .. 7.
Root8Tab == <<Fl(10000000, -7), Fl(10905077, -7), Fl(11892071, -7), Fl(12968395, -7), Fl(14142135, -7), Fl(15422108, -7), Fl(16817928, -7), Fl(18340080, -7)>>

Half == Fl(5, -1)

Quarter == Fl(25, -2)

Sixth == Fl(16666666, -8)

\* e^s = 1 + s (1 + s/2 (1 + s/3 (1 + s/4 (1 + s/5 (1 + s/6))))) for 0 <= s < 0.09.
ExpHorner(s) ==
    Strict(s, FAdd(One, FMul(s,
              FAdd(One, FMul(FMul(s, Half),
              FAdd(One, FMul(FMul(s, Third),
              FAdd(One, FMul(FMul(s, Quarter),
              FAdd(One, FMul(FMul(s, Fifth),
              FAdd(One, FMul(s, Sixth)))))))))))))

TimesPow10(p, k) == [m |-> p.m, e |-> p.e + k]

\* e^s * 2^(i/8) * 10^k.
ExpParts(s, i, k) ==
    TimesPow10(FMul(FMul(ExpHorner(s), Root8Tab[(i % 8) + 1]), Fl(2 ^ (i \div 8), 0)), k)

ExpOctave(r, i, k) == Strict(i, ExpParts(FSub(r, FMul(Fl(i, 0), LN2_8)), i, k))

ExpDecade(r, k) == Strict(r, ExpOctave(r, FFloor(FDiv(r, LN2_8)), k))

ExpReduce(y, k) == Strict(k, ExpDecade(FSub(y, FMul(Fl(k, 0), LN10)), k))

\* e^y.
FExp(y) == Strict(y, ExpReduce(y, FFloor(FDiv(y, LN10))))

\* Python's x ** y for x > 0.
FPow(x, y) == IF y.m = 0 THEN One ELSE FExp(FMul(y, FLn(x)))

(***************************************************************************)
(* Python exceptions: every component returns a record whose field err is  *)
(* "none" or the name of the exception it raised.                          *)
(***************************************************************************)
Raised(r) == r.err # "none"

(***************************************************************************)
(* DES-001 constants (thruster_performance_sizing.py)                      *)
(***************************************************************************)
G0 == Fl(980665, -5)

R_UNIVERSAL == Fl(831446, -2)

M_NH3 == Fl(17031, -3)

M_N2 == Fl(28014, -3)

M_H2 == Fl(2016, -3)

ALPHA == Fl(5, -1)

GAMMA == Fl(128, -2)

T_CHAMBER == Fl(1400, 0)

CHAMBER_PRESSURE_RATIO == Fl(7, -1)

NOZZLE_EFFICIENCY == Fl(35, -3)

TARGET_THRUST == Fl(1, 0)

TARGET_ISP_MIN == Fl(220, 0)

DESIGN_FEED_PRESSURE == Fl(30, -2)

DESIGN_CHAMBER_PRESSURE == FMul(DESIGN_FEED_PRESSURE, CHAMBER_PRESSURE_RATIO)

DESIGN_EXPANSION_RATIO == Fl(100, 0)

(***************************************************************************)
(* DES-001 analysis functions                                              *)
(***************************************************************************)
compute_gas_properties(alpha) ==
    LET n_NH3   == FMul(FDiv(Fl(4, 0), Fl(3, 0)), FSub(One, alpha))
        n_N2    == FAdd(FDiv(One, Fl(3, 0)), FMul(FDiv(Fl(2, 0), Fl(3, 0)), alpha))
        n_H2    == FMul(Fl(2, 0), alpha)
        n_total == FAdd(FDiv(Fl(4, 0), Fl(3, 0)), FMul(FDiv(Fl(2, 0), Fl(3, 0)), alpha))
        num     == FAdd(FAdd(FMul(M_NH3, n_NH3), FMul(M_N2, n_N2)), FMul(M_H2, n_H2))
        M_bar_g == FDiv(num, n_total)
        M_bar   == FDiv(M_bar_g, Fl(1000, 0))
    IN  IF n_total.m = 0 \/ num.m = 0
        THEN [err |-> "ZeroDivisionError", M_bar |-> Zero, R_specific |-> Zero]
        ELSE [err |-> "none", M_bar |-> M_bar, R_specific |-> FDiv(R_UNIVERSAL, M_bar)]

compute_c_star(gamma, R_specific, T_c) ==
    LET exponent == FDiv(FAdd(gamma, One), FSub(gamma, One))
        term     == FPow(FDiv(Fl(2, 0), FAdd(gamma, One)), FDiv(exponent, Fl(2, 0)))
    IN  IF FSub(gamma, One).m = 0 \/ FAdd(gamma, One).m = 0
        THEN [err |-> "ZeroDivisionError", c_star |-> Zero]
        ELSE [err |-> "none",
              c_star |-> np_divide(np_sqrt(FMul(FMul(gamma, R_specific), T_c)),
                                   FMul(gamma, term))]

\* The residual whose root is the exit Mach number (gamma is not 1).
area_ratio_eq(Me, area_ratio, gamma) ==
    LET exponent == FDiv(FAdd(gamma, One), FMul(Fl(2, 0), FSub(gamma, One)))
        term     == FMul(FDiv(Fl(2, 0), FAdd(gamma, One)),
                         FAdd(One, FMul(FDiv(FSub(gamma, One), Fl(2, 0)), FMul(Me, Me))))
    IN  FSub(FMul(FDiv(One, Me), FPow(term, exponent)), area_ratio)

(* An expansion whose pressure ratio has the exponent's sign reversed.    *)
compute_isentropic_expansion_InvertedRatio(M_e, P_c, gamma, R_specific, T_c) ==
    LET temp_factor == FAdd(One, FMul(FDiv(FSub(gamma, One), Fl(2, 0)), FMul(M_e, M_e)))
        P_e == FMul(P_c, FPow(temp_factor, FDiv(gamma, FSub(gamma, One))))
        T_e == FDiv(T_c, temp_factor)
        V_e == FMul(M_e, FSqrt(FMul(FMul(gamma, R_specific), T_e)))
    IN  IF FSub(gamma, One).m = 0
        THEN [err |-> "ZeroDivisionError", P_e |-> Zero, T_e |-> Zero, V_e |-> Zero]
        ELSE [err |-> "none", P_e |-> P_e, T_e |-> T_e, V_e |-> V_e]

compute_isentropic_expansion(M_e, P_c, gamma, R_specific, T_c) ==
    LET temp_factor == FAdd(One, FMul(FDiv(FSub(gamma, One), Fl(2, 0)), FMul(M_e, M_e)))
        P_e == FMul(P_c, FPow(temp_factor, FDiv(FNeg(gamma), FSub(gamma, One))))
        T_e == FDiv(T_c, temp_factor)
        V_e == FMul(M_e, FSqrt(FMul(FMul(gamma, R_specific), T_e)))
    IN  IF FSub(gamma, One).m = 0
        THEN [err |-> "ZeroDivisionError", P_e |-> Zero, T_e |-> Zero, V_e |-> Zero]
        ELSE [err |-> "none", P_e |-> P_e, T_e |-> T_e, V_e |-> V_e]

(***************************************************************************)
(* VER-001 physics model (VER-001_independent_simulation.py)               *)
(***************************************************************************)
g0 == Fl(980665, -5)

R_universal == Fl(831446, -2)

VER_M_NH3 == Fl(17031, -3)

VER_M_N2 == Fl(28014, -3)

VER_M_H2 == Fl(2016, -3)

\* Mean molecular weight in g/mol.
compute_mean_molecular_weight(alpha) ==
    LET moles_NH3   == FMul(FDiv(Fl(4, 0), Fl(3, 0)), FSub(One, alpha))
        moles_N2    == FAdd(FDiv(One, Fl(3, 0)), FMul(FDiv(Fl(2, 0), Fl(3, 0)), alpha))
        moles_H2    == FMul(Fl(2, 0), alpha)
        total_moles == FAdd(FDiv(Fl(4, 0), Fl(3, 0)), FMul(FDiv(Fl(2, 0), Fl(3, 0)), alpha))
        num         == FAdd(FAdd(FMul(VER_M_NH3, moles_NH3), FMul(VER_M_N2, moles_N2)),
                            FMul(VER_M_H2, moles_H2))
    IN  IF total_moles.m = 0
        THEN [err |-> "ZeroDivisionError", M_bar |-> Zero]
        ELSE [err |-> "none", M_bar |-> FDiv(num, total_moles)]

compute_specific_heat_ratio(alpha) == FSub(Fl(127, -2), FMul(Fl(5, -2), alpha))

area_ratio_residual(Me, area_ratio, gamma) ==
    LET term1    == FDiv(One, Me)
        term2    == FMul(FDiv(Fl(2, 0), FAdd(gamma, One)),
                         FAdd(One, FMul(FDiv(FSub(gamma, One), Fl(2, 0)), FMul(Me, Me))))
        exponent == FDiv(FAdd(gamma, One), FMul(Fl(2, 0), FSub(gamma, One)))
    IN  IF FLe(Me, One) THEN Fl(1, 6)
        ELSE FSub(FMul(term1, FPow(term2, exponent)), area_ratio)

(***************************************************************************)
(* scipy.optimize.brentq(f, a, b): raises ValueError unless f(a) and f(b)  *)
(* have different signs, and otherwise returns a root of f inside [a, b]   *)
(* to the tolerance XTOL.  The root is located by bisection.  impl names   *)
(* the residual: "primary" is area_ratio_eq, "harness" is                  *)
(* area_ratio_residual.                                                    *)
(***************************************************************************)
XTOL == Fl(1, -6)

Residual(impl, Me, area_ratio, gamma) ==
    IF impl = "primary" THEN area_ratio_eq(Me, area_ratio, gamma)
    ELSE area_ratio_residual(Me, area_ratio, gamma)

(* One halving of the bracket [iv.a, iv.b] around the midpoint mid, where  *)
(* the residual is fm; sa is the sign of the residual at the lower end.    *)
BisectPick(iv, sa, mid, fm) ==
    IF FLe(FSub(iv.b, iv.a), XTOL) \/ fm.m = 0 THEN [a |-> mid, b |-> mid, done |-> TRUE]
    ELSE IF ISgn(fm.m) = sa THEN [a |-> mid, b |-> iv.b, done |-> FALSE]
    ELSE [a |-> iv.a, b |-> mid, done |-> FALSE]

BisectMid(impl, area_ratio, gamma, iv, sa, mid) ==
    Strict(mid, BisectPick(iv, sa, mid, Residual(impl, mid, area_ratio, gamma)))

BisectStep(impl, area_ratio, gamma, iv, sa) ==
    BisectMid(impl, area_ratio, gamma, iv, sa, FMul(FAdd(iv.a, iv.b), Half))

(* Halving until the bracket is no wider than XTOL or the residual is 0.   *)
RECURSIVE BisectLoop(_, _, _, _, _)
BisectLoop(impl, area_ratio, gamma, iv, sa) ==
    IF iv.done THEN iv.a
    ELSE BisectLoop(impl, area_ratio, gamma, BisectStep(impl, area_ratio, gamma, iv, sa), sa)

Bisect(impl, area_ratio, gamma, a, b, sa) ==
    BisectLoop(impl, area_ratio, gamma, [a |-> a, b |-> b, done |-> FALSE], sa)

(* The root finder started without comparing the signs at the ends.      *)
BrentqSignsUnchecked(impl, area_ratio, gamma, a, b, fa, fb) ==
    IF fa.m = 0 THEN [err |-> "none", root |-> a]
    ELSE IF fb.m = 0 THEN [err |-> "none", root |-> b]
    ELSE [err |-> "none", root |-> Bisect(impl, area_ratio, gamma, a, b, ISgn(fa.m))]

(* The root finder falling back to the lower end of an invalid bracket.    *)
BrentqSignsFallback(impl, area_ratio, gamma, a, b, fa, fb) ==
    IF ISgn(fa.m) * ISgn(fb.m) > 0 THEN [err |-> "none", root |-> a]
    ELSE IF fa.m = 0 THEN [err |-> "none", root |-> a]
    ELSE IF fb.m = 0 THEN [err |-> "none", root |-> b]
    ELSE [err |-> "none", root |-> Bisect(impl, area_ratio, gamma, a, b, ISgn(fa.m))]

(* scipy.optimize.brentq: ValueError unless the residual changes sign over *)
(* [a, b]; otherwise a root of the residual within the bracket.            *)
BrentqSigns(impl, area_ratio, gamma, a, b, fa, fb) ==
    IF ISgn(fa.m) * ISgn(fb.m) > 0 THEN [err |-> "ValueError", root |-> Zero]
    ELSE IF fa.m = 0 THEN [err |-> "none", root |-> a]
    ELSE IF fb.m = 0 THEN [err |-> "none", root |-> b]
    ELSE [err |-> "none", root |-> Bisect(impl, area_ratio, gamma, a, b, ISgn(fa.m))]

brentq(impl, area_ratio, gamma, a, b) ==
    IF FSub(gamma, One).m = 0 THEN [err |-> "ZeroDivisionError", root |-> Zero]
    ELSE BrentqSigns(impl, area_ratio, gamma, a, b,
                     Residual(impl, a, area_ratio, gamma),
                     Residual(impl, b, area_ratio, gamma))

\* DES-001: Me_exit = brentq(area_ratio_eq, 1.01, 10.0)
exit_mach_from_area_ratio(area_ratio, gamma) ==
    brentq("primary", area_ratio, gamma, Fl(101, -2), Fl(10, 0))

\* A solver whose bracket starts at Mach 3.
solve_exit_mach_number_NarrowBracket(area_ratio, gamma) ==
    brentq("harness", area_ratio, gamma, Fl(3, 0), Fl(50, 0))

\* VER-001: Me = brentq(area_ratio_residual, 1.01, 50.0)
solve_exit_mach_number(area_ratio, gamma) ==
    brentq("harness", area_ratio, gamma, Fl(101, -2), Fl(50, 0))

\* 1 + (gamma - 1) / 2 * Me^2
temp_factor(gamma, Me) == FAdd(One, FMul(FDiv(FSub(gamma, One), Fl(2, 0)), FMul(Me, Me)))

NozzleFlowRecord(Me, Te, Pe, gamma, R_specific) ==
    [err |-> "none", exit_Mach |-> Me, exit_temperature_K |-> Te,
     exit_pressure_Pa |-> Pe,
     exit_velocity_m_s |-> FMul(Me, FSqrt(FMul(FMul(gamma, R_specific), Te))),
     R_specific |-> R_specific]

NozzleFlowAt(Tc, Pc, gamma, R_specific, Me, tf) ==
    NozzleFlowRecord(Me, FDiv(Tc, tf),
                     FMul(Pc, FPow(tf, FDiv(FNeg(gamma), FSub(gamma, One)))),
                     gamma, R_specific)

\* The flow properties, given the result sol of solve_exit_mach_number.
NozzleFlowFrom(sol, Tc, Pc, gamma, M_bar) ==
    IF Raised(sol) THEN [err |-> sol.err]
    ELSE NozzleFlowAt(Tc, Pc, gamma, FMul(FDiv(R_universal, M_bar), Fl(1000, 0)),
                      sol.root, temp_factor(gamma, sol.root))

(* Flow properties from a solve that depends on the chamber pressure: the *)
(* area ratio is scaled by P_c relative to 0.21 MPa.                       *)
compute_nozzle_flow_properties_PressureScaled(Tc, Pc, area_ratio, gamma, M_bar) ==
    NozzleFlowFrom(solve_exit_mach_number(FMul(area_ratio, FDiv(Pc, Fl(210000, 0))), gamma),
                   Tc, Pc, gamma, M_bar)

compute_nozzle_flow_properties(Tc, Pc, area_ratio, gamma, M_bar) ==
    NozzleFlowFrom(solve_exit_mach_number(area_ratio, gamma), Tc, Pc, gamma, M_bar)

compute_characteristic_velocity(Tc, gamma, M_bar) ==
    LET R_specific  == FMul(FDiv(R_universal, M_bar), Fl(1000, 0))
        numerator   == np_sqrt(FMul(FMul(gamma, R_specific), Tc))
        denominator == FMul(gamma,
                            FSqrt(FPow(FDiv(Fl(2, 0), FAdd(gamma, One)),
                                       FDiv(FAdd(gamma, One), FSub(gamma, One)))))
    IN  IF M_bar.m = 0 \/ FSub(gamma, One).m = 0 \/ FAdd(gamma, One).m = 0
        THEN [err |-> "ZeroDivisionError", c_star |-> Zero]
        ELSE [err |-> "none", c_star |-> np_divide(numerator, denominator)]

\* The throat area, given the exit Mach solution and the flow properties.
ThroatAreaFrom(sol, flow, Pc, thrust_target, c_star, area_ratio, nozzle_efficiency) ==
    IF Raised(sol) THEN [err |-> sol.err, At |-> Zero]
    ELSE IF Raised(flow) THEN [err |-> flow.err, At |-> Zero]
    ELSE [err |-> "none",
          At |-> FDiv(thrust_target,
                      FAdd(FDiv(FMul(Pc, FMul(flow.exit_velocity_m_s, nozzle_efficiency)), c_star),
                           FMul(flow.exit_pressure_Pa, area_ratio)))]

\* Both calls of the solver have the same arguments and the same result sol.
ThroatAreaSolved(sol, Pc, thrust_target, c_star, area_ratio, gamma, Tc, M_bar, nozzle_efficiency) ==
    ThroatAreaFrom(sol, NozzleFlowFrom(sol, Tc, Pc, gamma, M_bar),
                   Pc, thrust_target, c_star, area_ratio, nozzle_efficiency)

compute_throat_area(Pc, thrust_target, c_star, area_ratio, gamma, Tc, M_bar, nozzle_efficiency) ==
    ThroatAreaSolved(solve_exit_mach_number(area_ratio, gamma),
                     Pc, thrust_target, c_star, area_ratio, gamma, Tc, M_bar, nozzle_efficiency)

compute_mass_flow_rate(Pc, At, c_star) == FDiv(FMul(Pc, At), c_star)

compute_thrust_vacuum(mdot, Ve, Pe, Ae) == FAdd(FMul(mdot, Ve), FMul(Pe, Ae))

compute_specific_impulse(F, mdot) == FDiv(F, FMul(mdot, g0))

(***************************************************************************)
(* Design constants of the two scripts.  DES001_CONSTANTS are the module   *)
(* level constants of the sizing script, DESIGN_INPUTS the dictionary of   *)
(* the verification script (which has no entry for gamma).                 *)
(***************************************************************************)
NOZZLE_HALF_ANGLE == Fl(15, 0)

FEED_PRESSURE_MIN == Fl(15, -2)

FEED_PRESSURE_MAX == Fl(30, -2)

DES001_CONSTANTS ==
    [ALPHA |-> ALPHA, GAMMA |-> GAMMA, T_CHAMBER |-> T_CHAMBER,
     CHAMBER_PRESSURE_RATIO |-> CHAMBER_PRESSURE_RATIO,
     NOZZLE_HALF_ANGLE |-> NOZZLE_HALF_ANGLE,
     NOZZLE_EFFICIENCY |-> NOZZLE_EFFICIENCY,
     TARGET_THRUST |-> TARGET_THRUST,
     DESIGN_FEED_PRESSURE |-> DESIGN_FEED_PRESSURE,
     DESIGN_CHAMBER_PRESSURE |-> DESIGN_CHAMBER_PRESSURE,
     DESIGN_EXPANSION_RATIO |-> DESIGN_EXPANSION_RATIO]

DESIGN_INPUTS ==
    [feed_pressure_nominal_MPa |-> Fl(30, -2),
     chamber_pressure_ratio |-> Fl(70, -2),
     expansion_ratio |-> Fl(100, 0),
     nozzle_half_angle_deg |-> Fl(15, 0),
     alpha_ammonia_dissociation |-> Fl(5, -1),
     chamber_temperature_K |-> Fl(1400, 0),
     nozzle_efficiency |-> Fl(35, -3)]

thrust_target == Fl(1, 0)

VER001_CONSTANTS == [DESIGN_INPUTS |-> DESIGN_INPUTS, thrust_target |-> thrust_target]

(* Design points explored: the constants as written, and the same with one *)
(* constant edited in both scripts (gamma exists in the sizing script      *)
(* only).                                                                  *)
Variations ==
    {[what |-> "nominal", val |-> Zero]}
    \cup {[what |-> "eps", val |-> v] : v \in {Fl(1, 0), Fl(5, -1), Fl(50, 0), Fl(5000, 0)}}
    \cup {[what |-> "gamma", val |-> v] : v \in {Fl(1, 0), Fl(14, -1)}}
    \cup {[what |-> "eta", val |-> v] : v \in {Fl(-35, -3), Fl(5, -3), Fl(7, -3), Fl(1, 0)}}
    \cup {[what |-> "thrust", val |-> v] : v \in {Fl(9, -1), Fl(95, -2), Fl(105, -2), Fl(11, -1)}}
    \cup {[what |-> "alpha", val |-> v] : v \in {Fl(4, -1), Fl(6, -1)}}
    \cup {[what |-> "feed", val |-> v] : v \in {Fl(15, -2)}}
    \cup {[what |-> "Tc", val |-> v] : v \in {Fl(1000, 0)}}

PrimaryWith(v) ==
    LET c == DES001_CONSTANTS IN
    CASE v.what = "eps"    -> [c EXCEPT !.DESIGN_EXPANSION_RATIO = v.val]
      [] v.what = "gamma"  -> [c EXCEPT !.GAMMA = v.val]
      [] v.what = "eta"    -> [c EXCEPT !.NOZZLE_EFFICIENCY = v.val]
      [] v.what = "thrust" -> [c EXCEPT !.TARGET_THRUST = v.val]
      [] v.what = "alpha"  -> [c EXCEPT !.ALPHA = v.val]
      [] v.what = "feed"   -> [c EXCEPT !.DESIGN_FEED_PRESSURE = v.val,
                                        !.DESIGN_CHAMBER_PRESSURE = FMul(v.val, c.CHAMBER_PRESSURE_RATIO)]
      [] v.what = "Tc"     -> [c EXCEPT !.T_CHAMBER = v.val]
      [] OTHER             -> c

HarnessWith(v) ==
    LET c == VER001_CONSTANTS IN
    CASE v.what = "eps"    -> [c EXCEPT !.DESIGN_INPUTS.expansion_ratio = v.val]
      [] v.what = "eta"    -> [c EXCEPT !.DESIGN_INPUTS.nozzle_efficiency = v.val]
      [] v.what = "thrust" -> [c EXCEPT !.thrust_target = v.val]
      [] v.what = "alpha"  -> [c EXCEPT !.DESIGN_INPUTS.alpha_ammonia_dissociation = v.val]
      [] v.what = "feed"   -> [c EXCEPT !.DESIGN_INPUTS.feed_pressure_nominal_MPa = v.val]
      [] v.what = "Tc"     -> [c EXCEPT !.DESIGN_INPUTS.chamber_temperature_K = v.val]
      [] OTHER             -> c

PI == Fl(31415927, -7)

Diameter(A) == np_multiply(Fl(2, 0), np_sqrt(FDiv(A, PI)))

\* np.radians and np.tan, for angles below one radian.
np_radians(deg) == FDiv(FMul(deg, PI), Fl(180, 0))

SinSeries(x, x2) ==
    FMul(x, FAdd(One, FMul(x2, FAdd(Fl(-16666667, -8),
                 FMul(x2, FAdd(Fl(83333333, -10), FMul(x2, Fl(-19841270, -11))))))))

CosSeries(x2) ==
    FAdd(One, FMul(x2, FAdd(Fl(-5, -1),
              FMul(x2, FAdd(Fl(41666667, -9), FMul(x2, Fl(-13888889, -10)))))))

np_tan(x) == FDiv(SinSeries(x, FMul(x, x)), CosSeries(FMul(x, x)))

\* Step 7: L_nozzle = (De/2 - Dt/2) / np.tan(half_angle_rad)
NozzleLength(De, Dt, half_angle_deg) ==
    IF IsNaN(De) \/ IsNaN(Dt) THEN NaN
    ELSE np_divide(FSub(FDiv(De, Fl(2, 0)), FDiv(Dt, Fl(2, 0))), np_tan(np_radians(half_angle_deg)))

(* Throat sizing that leaves the nozzle efficiency out of the thrust        *)
(* equation it solves for At.                                              *)
SizeThroatIdealVelocity(c, P_c, c_star, P_e, V_e) ==
    LET V_e_actual    == FMul(V_e, c.NOZZLE_EFFICIENCY)
        At            == FDiv(c.TARGET_THRUST,
                              FAdd(FDiv(FMul(P_c, V_e), c_star),
                                   FMul(P_e, c.DESIGN_EXPANSION_RATIO)))
        Dt            == Diameter(At)
        mdot_required == FDiv(FMul(P_c, At), c_star)
        Ae            == FMul(c.DESIGN_EXPANSION_RATIO, At)
        De            == Diameter(Ae)
        L_nozzle      == NozzleLength(De, Dt, c.NOZZLE_HALF_ANGLE)
        Pe_Ae_term    == FMul(P_e, Ae)
        thrust_actual == FAdd(FMul(mdot_required, V_e_actual), Pe_Ae_term)
        Isp           == FDiv(thrust_actual, FMul(mdot_required, G0))
    IN  [V_e_actual |-> V_e_actual, At |-> At, Dt |-> Dt,
         mdot_required |-> mdot_required, Ae |-> Ae, De |-> De, L_nozzle |-> L_nozzle,
         Pe_Ae_term |-> Pe_Ae_term, thrust_actual |-> thrust_actual, Isp |-> Isp]

(* Steps 4 to 8 of main(): throat, mass flow, exit area, thrust and Isp.  *)
SizeThroat(c, P_c, c_star, P_e, V_e) ==
    LET V_e_actual    == FMul(V_e, c.NOZZLE_EFFICIENCY)
        At            == FDiv(c.TARGET_THRUST,
                              FAdd(FDiv(FMul(P_c, V_e_actual), c_star),
                                   FMul(P_e, c.DESIGN_EXPANSION_RATIO)))
        Dt            == Diameter(At)
        mdot_required == FDiv(FMul(P_c, At), c_star)
        Ae            == FMul(c.DESIGN_EXPANSION_RATIO, At)
        De            == Diameter(Ae)
        L_nozzle      == NozzleLength(De, Dt, c.NOZZLE_HALF_ANGLE)
        Pe_Ae_term    == FMul(P_e, Ae)
        thrust_actual == FAdd(FMul(mdot_required, V_e_actual), Pe_Ae_term)
        Isp           == FDiv(thrust_actual, FMul(mdot_required, G0))
    IN  [V_e_actual |-> V_e_actual, At |-> At, Dt |-> Dt,
         mdot_required |-> mdot_required, Ae |-> Ae, De |-> De, L_nozzle |-> L_nozzle,
         Pe_Ae_term |-> Pe_Ae_term, thrust_actual |-> thrust_actual, Isp |-> Isp]

(***************************************************************************)
(* Requirements compliance of the sizing script.                           *)
(***************************************************************************)
Hundred == Fl(100, 0)

requirements(thrust_actual, Isp) ==
    << [id |-> "REQ-001", threshold_min |-> Fl(95, -2), threshold_max |-> Fl(105, -2),
        computed |-> thrust_actual, type |-> "range"],
       [id |-> "REQ-002", threshold_min |-> Fl(220, 0), threshold_max |-> Fl(1, 30),
        computed |-> Isp, type |-> "minimum"] >>

(* The loop body with the band's ends excluded from the band. *)
evaluate_requirement_OpenBand(req) ==
    IF req.type = "range"
    THEN LET lower_margin == FMul(FDiv(FSub(req.computed, req.threshold_min), req.threshold_min), Hundred)
             upper_margin == FMul(FDiv(FSub(req.threshold_max, req.computed), req.threshold_max), Hundred)
             in_range     == FLt(req.threshold_min, req.computed) /\ FLt(req.computed, req.threshold_max)
         IN  [id |-> req.id, margin |-> FMin(lower_margin, upper_margin),
              status |-> IF in_range THEN "PASS" ELSE "FAIL"]
    ELSE LET margin == FMul(FDiv(FSub(req.computed, req.threshold_min), req.threshold_min), Hundred)
         IN  [id |-> req.id, margin |-> margin,
              status |-> IF FGe(req.computed, req.threshold_min) THEN "PASS" ELSE "FAIL"]

(* The loop body with a minimum requirement met only above the threshold. *)
evaluate_requirement_StrictMinimum(req) ==
    IF req.type = "range"
    THEN LET lower_margin == FMul(FDiv(FSub(req.computed, req.threshold_min), req.threshold_min), Hundred)
             upper_margin == FMul(FDiv(FSub(req.threshold_max, req.computed), req.threshold_max), Hundred)
             in_range     == FLe(req.threshold_min, req.computed) /\ FLe(req.computed, req.threshold_max)
         IN  [id |-> req.id, margin |-> FMin(lower_margin, upper_margin),
              status |-> IF in_range THEN "PASS" ELSE "FAIL"]
    ELSE LET margin == FMul(FDiv(FSub(req.computed, req.threshold_min), req.threshold_min), Hundred)
         IN  [id |-> req.id, margin |-> margin,
              status |-> IF FGt(req.computed, req.threshold_min) THEN "PASS" ELSE "FAIL"]

(* Body of the compliance loop for one requirement. *)
evaluate_requirement(req) ==
    IF req.type = "range"
    THEN LET lower_margin == FMul(FDiv(FSub(req.computed, req.threshold_min), req.threshold_min), Hundred)
             upper_margin == FMul(FDiv(FSub(req.threshold_max, req.computed), req.threshold_max), Hundred)
             in_range     == FLe(req.threshold_min, req.computed) /\ FLe(req.computed, req.threshold_max)
         IN  [id |-> req.id, margin |-> FMin(lower_margin, upper_margin),
              status |-> IF in_range THEN "PASS" ELSE "FAIL"]
    ELSE LET margin == FMul(FDiv(FSub(req.computed, req.threshold_min), req.threshold_min), Hundred)
         IN  [id |-> req.id, margin |-> margin,
              status |-> IF FGe(req.computed, req.threshold_min) THEN "PASS" ELSE "FAIL"]

(* The loop over requirements.items(): every entry is evaluated in order;  *)
(* a FAIL clears all_pass and the loop goes on.                            *)
RECURSIVE compliance_loop(_, _, _)
compliance_loop(reqs, i, acc) ==
    IF i > Len(reqs) THEN acc
    ELSE LET r == evaluate_requirement(reqs[i])
         IN  compliance_loop(reqs, i + 1,
                 [all_pass |-> acc.all_pass /\ r.status = "PASS",
                  margins  |-> Append(acc.margins, [id |-> r.id, margin |-> r.margin])])

evaluate_compliance(thrust_actual, Isp) ==
    compliance_loop(requirements(thrust_actual, Isp), 1, [all_pass |-> TRUE, margins |-> << >>])

MarginOf(margins, id) == (CHOOSE k \in 1..Len(margins) : margins[k].id = id) 

(* The output block with a REQ-001 band other than the loop's.              *)
requirements_compliance_WideBand(thrust_actual, Isp, margins) ==
    [REQ_001 |-> [description |-> "Thrust = 1.0 N +/- 0.05 N", unit |-> "N",
                  threshold_min |-> Fl(9, -1), threshold_max |-> Fl(11, -1),
                  computed |-> thrust_actual,
                  margin_percent |-> margins[MarginOf(margins, "REQ-001")].margin,
                  status |-> IF FLe(Fl(9, -1), thrust_actual) /\ FLe(thrust_actual, Fl(11, -1))
                             THEN "PASS" ELSE "FAIL"],
     REQ_002 |-> [description |-> "Specific Impulse >= 220 s", unit |-> "s",
                  threshold_min |-> Fl(220, 0),
                  computed |-> Isp,
                  margin_percent |-> margins[MarginOf(margins, "REQ-002")].margin,
                  status |-> IF FGe(Isp, Fl(220, 0)) THEN "PASS" ELSE "FAIL"]]

(* The requirements_compliance block of the output record: margins from    *)
(* the loop, statuses recomputed with literal thresholds.                  *)
requirements_compliance(thrust_actual, Isp, margins) ==
    [REQ_001 |-> [description |-> "Thrust = 1.0 N +/- 0.05 N", unit |-> "N",
                  threshold_min |-> Fl(95, -2), threshold_max |-> Fl(105, -2),
                  computed |-> thrust_actual,
                  margin_percent |-> margins[MarginOf(margins, "REQ-001")].margin,
                  status |-> IF FLe(Fl(95, -2), thrust_actual) /\ FLe(thrust_actual, Fl(105, -2))
                             THEN "PASS" ELSE "FAIL"],
     REQ_002 |-> [description |-> "Specific Impulse >= 220 s", unit |-> "s",
                  threshold_min |-> Fl(220, 0),
                  computed |-> Isp,
                  margin_percent |-> margins[MarginOf(margins, "REQ-002")].margin,
                  status |-> IF FGe(Isp, Fl(220, 0)) THEN "PASS" ELSE "FAIL"]]

exit_code(success) == IF success THEN 0 ELSE 1

(***************************************************************************)
(* State.                                                                  *)
(*   pconst, hconst  design constants of the sizing script and of the      *)
(*                   verification script                                   *)
(*   p_pc, p         position and local variables of the sizing script     *)
(*   p_err, p_exit   exception that ended it ("none" if none) and its exit *)
(*                   status (-1 while running)                             *)
(*   h_pc, h, h_err  the same for the verification script                  *)
(*   fs              the two output files, each a sequence holding the     *)
(*                   record stored in the file (empty: no file)            *)
(*   writes          number of times each file has been opened for writing *)
(*   e_pc, e_in, e_out  position, drawn inputs and results of the          *)
(*                   evaluator runs (specification SpecEval)               *)
(***************************************************************************)
VARIABLES pconst, hconst, p_pc, p, p_err, p_exit, h_pc, h, h_err, fs, writes,
          e_pc, e_in, e_out

vars == <<pconst, hconst, p_pc, p, p_err, p_exit, h_pc, h, h_err, fs, writes,
          e_pc, e_in, e_out>>

pvars == <<p_pc, p, p_err, p_exit>>

hvars == <<h_pc, h, h_err>>

evars == <<e_pc, e_in, e_out>>

NoLocals == [script |-> "none"]

Init ==
    /\ \E v \in Variations : /\ pconst = PrimaryWith(v)
                             /\ hconst = HarnessWith(v)
    /\ p_pc = "start" /\ p = NoLocals /\ p_err = "none" /\ p_exit = -1
    /\ h_pc = "start" /\ h = NoLocals /\ h_err = "none"
    /\ fs = [des001 |-> << >>, ver001 |-> << >>]
    /\ writes = [des001 |-> 0, ver001 |-> 0]
    /\ e_pc = "off" /\ e_in = NoLocals /\ e_out = NoLocals

(* The pipeline components a run has executed so far, in call order.  A    *)
(* step records the calls it makes with Executed.                         *)
Executed(l, names) ==
    [calls |-> (IF "calls" \in DOMAIN l THEN l.calls ELSE << >>) \o names]

RECURSIVE Repeat(_, _)
Repeat(names, n) == IF n = 0 THEN << >> ELSE names \o Repeat(names, n - 1)

(* compute_nozzle_flow_properties solves for the exit Mach number and     *)
(* evaluates the isentropic relations.                                    *)
NozzleFlowCalls == <<"exit_mach", "expansion">>

(* compute_throat_area solves for the exit Mach number, calls             *)
(* compute_nozzle_flow_properties and sizes the throat.                   *)
ThroatAreaCalls == <<"exit_mach">> \o NozzleFlowCalls \o <<"throat_sizing">>

(* generate_performance_plot recomputes the gas properties, c* and the    *)
(* exit Mach number, then expands and sizes once per plotted pressure.    *)
PlotPoints == 2

PlotCalls ==
    <<"gas_properties", "c_star", "exit_mach">>
        \o Repeat(<<"expansion", "throat_sizing">>, PlotPoints)

(* The two scripts are run one after the other, in either order. *)
HarnessQuiet == h_pc \in {"start", "done", "aborted"}

PrimaryQuiet == p_pc \in {"start", "exited", "aborted"}

(* An exception handler that saves the values computed so far. *)
PRaisePartialRecord(err) ==
    /\ p_pc' = "aborted"
    /\ p_err' = err
    /\ p_exit' = 1
    /\ fs' = [fs EXCEPT !.des001 = <<p>>]
    /\ writes' = [writes EXCEPT !.des001 = @ + 1]
    /\ UNCHANGED p

(* An uncaught exception ends the sizing script with a non-zero status. *)
PRaise(err) ==
    /\ p_pc' = "aborted"
    /\ p_err' = err
    /\ p_exit' = 1
    /\ UNCHANGED <<p, fs, writes>>

PFrame == UNCHANGED <<pconst, hconst, hvars, evars>>

P_Step1 ==
    /\ p_pc = "start" /\ HarnessQuiet
    /\ LET g == compute_gas_properties(pconst.ALPHA) IN
       IF Raised(g) THEN PRaise(g.err)
       ELSE /\ p' = [script |-> "DES-001", M_bar |-> g.M_bar, R_specific |-> g.R_specific,
                      calls |-> <<"gas_properties">>]
            /\ p_pc' = "step2"
            /\ UNCHANGED <<p_err, p_exit, fs, writes>>
    /\ PFrame

P_Step2 ==
    /\ p_pc = "step2"
    /\ LET r == compute_c_star(pconst.GAMMA, p.R_specific, pconst.T_CHAMBER) IN
       IF Raised(r) THEN PRaise(r.err)
       ELSE /\ p' = Executed(p, <<"c_star">>) @@ p @@ [c_star |-> r.c_star]
            /\ p_pc' = "step3"
            /\ UNCHANGED <<p_err, p_exit, fs, writes>>
    /\ PFrame

P_Step3Store(P_c, sol, x) ==
    IF Raised(sol) THEN PRaise(sol.err)
    ELSE IF Raised(x) THEN PRaise(x.err)
    ELSE /\ p' = Executed(p, <<"exit_mach", "expansion">>) @@ p
                   @@ [P_c |-> P_c, M_e |-> sol.root, P_e |-> x.P_e, T_e |-> x.T_e, V_e |-> x.V_e]
         /\ p_pc' = "step4"
         /\ UNCHANGED <<p_err, p_exit, fs, writes>>

(* An expansion computed from a Mach number solved a second time, over the  *)
(* wider bracket.                                                          *)
P_Step3ExpandResolved(P_c, sol) ==
    P_Step3Store(P_c, sol,
                 IF Raised(sol) THEN sol
                 ELSE compute_isentropic_expansion(
                          solve_exit_mach_number(pconst.DESIGN_EXPANSION_RATIO, pconst.GAMMA).root,
                          P_c, pconst.GAMMA, p.R_specific, pconst.T_CHAMBER))

P_Step3Expand(P_c, sol) ==
    P_Step3Store(P_c, sol,
                 IF Raised(sol) THEN sol
                 ELSE compute_isentropic_expansion(sol.root, P_c, pconst.GAMMA, p.R_specific,
                                                   pconst.T_CHAMBER))

P_Step3 ==
    /\ p_pc = "step3"
    /\ P_Step3Expand(FMul(pconst.DESIGN_CHAMBER_PRESSURE, Fl(1, 6)),
                     exit_mach_from_area_ratio(pconst.DESIGN_EXPANSION_RATIO, pconst.GAMMA))
    /\ PFrame

P_Step4to8 ==
    /\ p_pc = "step4"
    /\ p' = Executed(p, <<"throat_sizing">>) @@ p
               @@ SizeThroat(pconst, p.P_c, p.c_star, p.P_e, p.V_e)
    /\ p_pc' = "compliance"
    /\ UNCHANGED <<p_err, p_exit, fs, writes>>
    /\ PFrame

(* A compliance step that stops the run when a requirement fails. *)
P_ComplianceAbortOnFail ==
    /\ p_pc = "compliance"
    /\ LET r == evaluate_compliance(p.thrust_actual, p.Isp)
       IN  IF r.all_pass
           THEN /\ p' = p @@ [all_pass |-> r.all_pass, margins |-> r.margins]
                /\ p_pc' = "output"
                /\ UNCHANGED <<p_err, p_exit, fs, writes>>
           ELSE /\ p_pc' = "aborted" /\ p_err' = "ComplianceError" /\ p_exit' = 1
                /\ UNCHANGED <<p, fs, writes>>
    /\ UNCHANGED <<pconst, hconst, h_pc, h, h_err, e_pc, e_in, e_out>>

P_Compliance ==
    /\ p_pc = "compliance"
    /\ LET r == evaluate_compliance(p.thrust_actual, p.Isp)
       IN  p' = Executed(p, <<"compliance">>) @@ p
                    @@ [all_pass |-> r.all_pass, margins |-> r.margins]
    /\ p_pc' = "output"
    /\ UNCHANGED <<p_err, p_exit, fs, writes>>
    /\ PFrame

output(c, l) ==
    [design_id |-> "DES-001",
     parameters |->
        [feed_pressure_MPa |-> c.DESIGN_FEED_PRESSURE,
         chamber_pressure_MPa |-> c.DESIGN_CHAMBER_PRESSURE,
         chamber_pressure_Pa |-> l.P_c,
         chamber_temperature_K |-> c.T_CHAMBER,
         expansion_ratio |-> c.DESIGN_EXPANSION_RATIO,
         nozzle_half_angle_deg |-> c.NOZZLE_HALF_ANGLE,
         nozzle_efficiency |-> c.NOZZLE_EFFICIENCY,
         ammonia_dissociation_degree |-> c.ALPHA,
         specific_heat_ratio |-> c.GAMMA],
     computed_results |->
        [thrust_N |-> l.thrust_actual,
         specific_impulse_s |-> l.Isp,
         mass_flow_rate_kg_s |-> l.mdot_required,
         throat_area_m2 |-> l.At,
         throat_diameter_m |-> l.Dt,
         throat_diameter_mm |-> np_multiply(Fl(1000, 0), l.Dt),
         exit_area_m2 |-> l.Ae,
         exit_diameter_m |-> l.De,
         exit_diameter_mm |-> np_multiply(Fl(1000, 0), l.De),
         nozzle_length_m |-> l.L_nozzle,
         nozzle_length_mm |-> np_multiply(Fl(1000, 0), l.L_nozzle),
         exit_Mach_number |-> l.M_e,
         exit_velocity_m_s |-> l.V_e_actual,
         exit_pressure_Pa |-> l.P_e,
         exit_temperature_K |-> l.T_e,
         Pe_Ae_term_N |-> l.Pe_Ae_term,
         characteristic_velocity_m_s |-> l.c_star,
         mean_molecular_weight_g_mol |-> FMul(l.M_bar, Fl(1000, 0)),
         specific_gas_constant_J_kg_K |-> l.R_specific],
     requirements_compliance |-> requirements_compliance(l.thrust_actual, l.Isp, l.margins),
     assumptions |->
        << <<"Ammonia dissociation degree (alpha)", c.ALPHA>>,
           <<"Specific heat ratio (gamma)", c.GAMMA>>,
           <<"Chamber temperature K", c.T_CHAMBER>>,
           <<"Chamber pressure % of feed pressure", FMul(c.CHAMBER_PRESSURE_RATIO, Hundred)>>,
           <<"Nozzle half-angle", c.NOZZLE_HALF_ANGLE>>,
           <<"Nozzle efficiency", c.NOZZLE_EFFICIENCY>>,
           <<"Feed pressure MPa", c.DESIGN_FEED_PRESSURE>>,
           <<"Expansion ratio", c.DESIGN_EXPANSION_RATIO>>,
           <<"Vacuum operation (ambient pressure Pa = 0)">>,
           <<"Steady-state operation (transient effects neglected)">> >>]

(* Building the output record and writing it to the file in one open(). *)
P_WriteOutput ==
    /\ p_pc = "output"
    /\ fs' = [fs EXCEPT !.des001 = <<output(pconst, p)>>]
    /\ writes' = [writes EXCEPT !.des001 = @ + 1]
    /\ p_pc' = "return"
    /\ UNCHANGED <<p, p_err, p_exit>>
    /\ PFrame

(* The plot is drawn, main() returns all_pass and the script exits with 0 *)
(* or 1.                                                                  *)
P_Exit ==
    /\ p_pc = "return"
    /\ p' = Executed(p, PlotCalls) @@ p
    /\ p_exit' = exit_code(p.all_pass)
    /\ p_pc' = "exited"
    /\ UNCHANGED <<p_err, fs, writes>>
    /\ PFrame


(***************************************************************************)
(* The verification script.                                                *)
(***************************************************************************)
None == [none |-> TRUE]

IsNone(x) == "none" \in DOMAIN x

SweepPoints == 2

linspace(a, b, n, i) == FAdd(a, FMul(Fl(i, 0), FDiv(FSub(b, a), Fl(n - 1, 0))))

SweepRecord(Pf_MPa, Pc, flow, mdot, Ve_actual, F) ==
    [err |-> "none", feed_pressure_MPa |-> Pf_MPa,
     chamber_pressure_MPa |-> FDiv(Pc, Fl(1, 6)),
     thrust_N |-> F, Isp_s |-> compute_specific_impulse(F, mdot),
     mass_flow_rate_kg_s |-> mdot,
     exit_velocity_m_s |-> Ve_actual,
     exit_pressure_Pa |-> flow.exit_pressure_Pa,
     exit_temperature_K |-> flow.exit_temperature_K]

SweepThrust(Pf_MPa, Pc, flow, mdot, Ve_actual, Ae) ==
    SweepRecord(Pf_MPa, Pc, flow, mdot, Ve_actual,
                compute_thrust_vacuum(mdot, Ve_actual, flow.exit_pressure_Pa, Ae))

(* A sweep iteration that sizes the throat again for the target thrust at  *)
(* its own chamber pressure.                                               *)
SweepFromResized(Pf_MPa, Pc, flow, l) ==
    IF Raised(flow) THEN [err |-> flow.err]
    ELSE LET At == ThroatAreaFrom([err |-> "none", root |-> flow.exit_Mach], flow, Pc,
                                  l.thrust_target, l.c_star, l.area_ratio,
                                  l.nozzle_efficiency).At
         IN  SweepThrust(Pf_MPa, Pc, flow, compute_mass_flow_rate(Pc, At, l.c_star),
                         FMul(flow.exit_velocity_m_s, l.nozzle_efficiency),
                         FMul(l.area_ratio, At))

SweepFrom(Pf_MPa, Pc, flow, l) ==
    IF Raised(flow) THEN [err |-> flow.err]
    ELSE SweepThrust(Pf_MPa, Pc, flow, compute_mass_flow_rate(Pc, l.At, l.c_star),
                     FMul(flow.exit_velocity_m_s, l.nozzle_efficiency), l.Ae)

SweepAt(Pf_MPa, Pc, l) ==
    SweepFrom(Pf_MPa, Pc,
              compute_nozzle_flow_properties(l.Tc, Pc, l.area_ratio, l.gamma, l.M_bar), l)

(* One iteration of the feed-pressure sweep. *)
sweep_point(Pf_MPa, l) == SweepAt(Pf_MPa, FMul(l.chamber_pressure_ratio, FMul(Pf_MPa, Fl(1, 6))), l)

pressure_sweep(l) ==
    [i \in 1..SweepPoints |->
        sweep_point(linspace(Fl(15, -2), Fl(30, -2), SweepPoints, i - 1), l)]

req_001_result(F_nominal) ==
    LET req_001_thrust_min == Fl(95, -2)
        req_001_thrust_max == Fl(105, -2)
        in_band == FLe(req_001_thrust_min, F_nominal) /\ FLe(F_nominal, req_001_thrust_max)
    IN  [description |-> "Thrust = 1.0 N +/- 0.05 N at nominal feed pressure", unit |-> "N",
         computed_value |-> F_nominal,
         threshold_min |-> req_001_thrust_min,
         threshold_max |-> req_001_thrust_max,
         margin_percent |-> IF in_band
                            THEN FMul(FDiv(FSub(F_nominal, One), One), Hundred)
                            ELSE None,
         status |-> IF in_band THEN "PASS" ELSE "FAIL"]

req_002_result(Isp_nominal) ==
    LET req_002_isp_min == Fl(220, 0)
    IN  [description |-> "Specific Impulse >= 220 s in vacuum", unit |-> "s",
         computed_value |-> Isp_nominal,
         threshold_min |-> req_002_isp_min,
         margin_percent |-> FMul(FDiv(FSub(Isp_nominal, req_002_isp_min), req_002_isp_min), Hundred),
         status |-> IF FGe(Isp_nominal, req_002_isp_min) THEN "PASS" ELSE "FAIL"]

(* Delta of one compared quantity, and the flag printed next to it. *)
delta_percent(agent3, agent2) == FMul(FDiv(FAbs(FSub(agent3, agent2)), agent2), Hundred)

flag_exceeds(delta) == FGt(delta, Fl(5, 0))

(* d[group][field] raises KeyError unless the group and the field exist. *)
HasFields(d, group, fields) == group \in DOMAIN d /\ fields \subseteq DOMAIN d[group]

(* Step 4: comparison with the stored record of the sizing script. *)
compare_with_agent2(F_nominal, Isp_nominal, des001_data) ==
    LET agent2_thrust == des001_data.computed_results.thrust_N
        agent2_Isp    == des001_data.computed_results.specific_impulse_s
        thrust_delta  == delta_percent(F_nominal, agent2_thrust)
        Isp_delta     == delta_percent(Isp_nominal, agent2_Isp)
    IN  [agent2_thrust_N |-> agent2_thrust,
         agent3_thrust_N |-> F_nominal,
         thrust_delta_percent |-> thrust_delta,
         agent2_Isp_s |-> agent2_Isp,
         agent3_Isp_s |-> Isp_nominal,
         Isp_delta_percent |-> Isp_delta,
         thrust_flag |-> flag_exceeds(thrust_delta),
         Isp_flag |-> flag_exceeds(Isp_delta)]

HRaise(err) ==
    /\ h_pc' = "aborted"
    /\ h_err' = err
    /\ UNCHANGED <<h, fs, writes>>

HFrame == UNCHANGED <<pconst, hconst, pvars, evars>>

(* STEP 1, first part: the design inputs and the gas properties. *)
H_GasProperties ==
    /\ h_pc = "start" /\ PrimaryQuiet
    /\ LET d     == hconst.DESIGN_INPUTS
           alpha == d.alpha_ammonia_dissociation
           Tc    == d.chamber_temperature_K
           Pc_nominal == FMul(d.chamber_pressure_ratio, FMul(d.feed_pressure_nominal_MPa, Fl(1, 6)))
           mw    == compute_mean_molecular_weight(alpha)
           gamma == compute_specific_heat_ratio(alpha)
           cs    == compute_characteristic_velocity(Tc, gamma, mw.M_bar)
       IN  IF Raised(mw) THEN HRaise(mw.err)
           ELSE IF Raised(cs) THEN HRaise(cs.err)
           ELSE /\ h' = [script |-> "VER-001", alpha |-> alpha, Tc |-> Tc,
                         area_ratio |-> d.expansion_ratio,
                         feed_pressure_nominal_MPa |-> d.feed_pressure_nominal_MPa,
                         chamber_pressure_ratio |-> d.chamber_pressure_ratio,
                         nozzle_efficiency |-> d.nozzle_efficiency,
                         Pc_nominal |-> Pc_nominal,
                         M_bar |-> mw.M_bar, gamma |-> gamma, c_star |-> cs.c_star,
                         calls |-> <<"gas_properties", "c_star">>]
                /\ h_pc' = "step2"
                /\ UNCHANGED <<h_err, fs, writes>>
    /\ HFrame

H_SizingStore(At, Ae, mdot_nominal, flow_props, Ve_actual, F_nominal) ==
    /\ h' = Executed(h, ThroatAreaCalls \o NozzleFlowCalls) @@ h
               @@ [thrust_target |-> hconst.thrust_target, At |-> At, Ae |-> Ae,
                  mdot_nominal |-> mdot_nominal, flow_props |-> flow_props,
                  Ve_actual |-> Ve_actual, F_nominal |-> F_nominal,
                  Isp_nominal |-> compute_specific_impulse(F_nominal, mdot_nominal)]
    /\ h_pc' = "sweep"
    /\ UNCHANGED <<h_err, fs, writes>>

H_SizingThrust(At, Ae, mdot_nominal, flow_props, Ve_actual) ==
    H_SizingStore(At, Ae, mdot_nominal, flow_props, Ve_actual,
                 compute_thrust_vacuum(mdot_nominal, Ve_actual, flow_props.exit_pressure_Pa, Ae))

H_SizingNominal(ta, flow_props) ==
    IF Raised(ta) THEN HRaise(ta.err)
    ELSE IF Raised(flow_props) THEN HRaise(flow_props.err)
    ELSE H_SizingThrust(ta.At, FMul(h.area_ratio, ta.At),
                       compute_mass_flow_rate(h.Pc_nominal, ta.At, h.c_star),
                       flow_props, FMul(flow_props.exit_velocity_m_s, h.nozzle_efficiency))

(* STEP 1, second part: throat sizing for the target thrust and the      *)
(* nominal performance.                                                  *)
H_Sizing ==
    /\ h_pc = "step2"
    /\ H_SizingNominal(compute_throat_area(h.Pc_nominal, hconst.thrust_target, h.c_star,
                                          h.area_ratio, h.gamma, h.Tc, h.M_bar,
                                          h.nozzle_efficiency),
                      compute_nozzle_flow_properties(h.Tc, h.Pc_nominal, h.area_ratio,
                                                     h.gamma, h.M_bar))
    /\ HFrame

H_SweepStore(results) ==
    IF \E i \in 1..SweepPoints : Raised(results[i])
    THEN HRaise(results[CHOOSE i \in 1..SweepPoints : Raised(results[i])].err)
    ELSE /\ h' = Executed(h, Repeat(NozzleFlowCalls, SweepPoints)) @@ h
                   @@ [results |-> results,
                       req_001_result |-> req_001_result(h.F_nominal),
                       req_002_result |-> req_002_result(h.Isp_nominal)]
         /\ h_pc' = "compare"
         /\ UNCHANGED <<h_err, fs, writes>>

(* STEP 2 and STEP 3: the feed-pressure sweep and the two requirement    *)
(* results.                                                              *)
H_Sweep ==
    /\ h_pc = "sweep"
    /\ H_SweepStore(pressure_sweep(h))
    /\ HFrame

(* A comparison step that adopts the stored thrust as the nominal thrust. *)
H_CompareAdoptStored ==
    /\ h_pc = "compare"
    /\ h' = IF fs.des001 # << >>
            THEN [h EXCEPT !.F_nominal = fs.des001[1].computed_results.thrust_N]
                 @@ [comparison |-> compare_with_agent2(h.F_nominal, h.Isp_nominal, fs.des001[1]),
                     des001_data |-> fs.des001[1]]
            ELSE h @@ [comparison |-> None]
    /\ h_pc' = "save"
    /\ UNCHANGED <<h_err, fs, writes>>
    /\ UNCHANGED <<pconst, hconst, p_pc, p, p_err, p_exit, e_pc, e_in, e_out>>

(* A comparison step that stops the run when a delta exceeds 5 %. *)
H_CompareAbortOnFlag ==
    /\ h_pc = "compare"
    /\ h' = h @@ IF fs.des001 # << >>
                  THEN [comparison |-> compare_with_agent2(h.F_nominal, h.Isp_nominal,
                                                           fs.des001[1]),
                        des001_data |-> fs.des001[1]]
                  ELSE [comparison |-> None]
    /\ h_pc' = IF ~IsNone(h'.comparison) /\ (h'.comparison.thrust_flag \/ h'.comparison.Isp_flag)
               THEN "aborted" ELSE "save"
    /\ UNCHANGED <<h_err, fs, writes>>
    /\ UNCHANGED <<pconst, hconst, p_pc, p, p_err, p_exit, e_pc, e_in, e_out>>

(* STEP 4: comparison, made only if the sizing script's file exists. *)
H_Compare ==
    /\ h_pc = "compare"
    /\ IF fs.des001 # << >> /\ ~HasFields(fs.des001[1], "computed_results",
                                          {"thrust_N", "specific_impulse_s"})
       THEN HRaise("KeyError")
       ELSE /\ h' = Executed(h, <<"comparison">>) @@ h
                      @@ IF fs.des001 # << >>
                         THEN [comparison |-> compare_with_agent2(h.F_nominal, h.Isp_nominal,
                                                                  fs.des001[1]),
                               des001_data |-> fs.des001[1]]
                         ELSE [comparison |-> None]
            /\ h_pc' = "save"
            /\ UNCHANGED <<h_err, fs, writes>>
    /\ HFrame

(* What the repeated des001_path.exists() calls of one step return when    *)
(* nothing touches the file during the step.                               *)
Steady(exists, n) == [i \in 1..n |-> exists]

(* The names agent2_thrust, thrust_delta, ... and des001_data are bound    *)
(* only by a comparison step that found the file.                          *)
Unbound(l) == IsNone(l.comparison)

output_data(c, l, seen) ==
    [verification_id |-> "VER-001",
     verification_method |-> "Simulation (Independent)",
     design_inputs |-> c.DESIGN_INPUTS,
     computed_gas_properties |->
        [mean_molecular_weight_g_mol |-> l.M_bar,
         specific_heat_ratio |-> l.gamma,
         characteristic_velocity_m_s |-> l.c_star],
     thruster_sizing |->
        [throat_area_m2 |-> l.At,
         throat_diameter_m |-> Diameter(l.At),
         throat_diameter_mm |-> np_multiply(Fl(1000, 0), Diameter(l.At)),
         exit_area_m2 |-> l.Ae,
         exit_diameter_m |-> Diameter(l.Ae),
         exit_diameter_mm |-> np_multiply(Fl(1000, 0), Diameter(l.Ae)),
         expansion_ratio |-> l.area_ratio],
     nominal_performance |->
        [feed_pressure_MPa |-> l.feed_pressure_nominal_MPa,
         chamber_pressure_MPa |-> FDiv(l.Pc_nominal, Fl(1, 6)),
         thrust_N |-> l.F_nominal,
         specific_impulse_s |-> l.Isp_nominal,
         mass_flow_rate_kg_s |-> l.mdot_nominal,
         exit_velocity_m_s |-> l.flow_props.exit_velocity_m_s,
         exit_pressure_Pa |-> l.flow_props.exit_pressure_Pa,
         exit_temperature_K |-> l.flow_props.exit_temperature_K,
         exit_Mach |-> l.flow_props.exit_Mach],
     pressure_sweep |-> l.results,
     requirements_verification |->
        [REQ_001 |-> l.req_001_result, REQ_002 |-> l.req_002_result],
     comparison_with_agent2 |->
        IF seen[1]
        THEN [agent2_thrust_N |-> IF seen[2] THEN l.comparison.agent2_thrust_N ELSE None,
              agent3_thrust_N |-> l.F_nominal,
              thrust_delta_percent |-> IF seen[3] THEN l.comparison.thrust_delta_percent
                                       ELSE None,
              agent2_Isp_s |-> IF seen[4] THEN l.comparison.agent2_Isp_s ELSE None,
              agent3_Isp_s |-> l.Isp_nominal,
              Isp_delta_percent |-> IF seen[5] THEN l.comparison.Isp_delta_percent ELSE None]
        ELSE None,
     assumptions |->
        << <<"Ammonia dissociation degree (alpha)", c.DESIGN_INPUTS.alpha_ammonia_dissociation>>,
           <<"Chamber temperature K", c.DESIGN_INPUTS.chamber_temperature_K>>,
           <<"Chamber pressure % of feed pressure",
             FMul(c.DESIGN_INPUTS.chamber_pressure_ratio, Hundred)>>,
           <<"Expansion ratio", l.area_ratio>>,
           <<"Nozzle half-angle deg", c.DESIGN_INPUTS.nozzle_half_angle_deg>>,
           <<"Vacuum operation (Pa = 0)">>,
           <<"Steady-state operation">>,
           <<"Ideal gas behavior with constant gamma">> >>]

(* STEP 5: the results record is built and written.  seen[1] is what the  *)
(* existence check on the whole comparison block returned, seen[2..5] what *)
(* the checks on its four values returned, in evaluation order.            *)
H_SaveSeen(seen) ==
    IF seen[1] /\ (\E i \in 2..5 : seen[i]) /\ Unbound(h)
    THEN HRaise("UnboundLocalError")
    ELSE /\ fs' = [fs EXCEPT !.ver001 = <<output_data(hconst, h, seen)>>]
         /\ writes' = [writes EXCEPT !.ver001 = @ + 1]
         /\ h_pc' = "plots"
         /\ UNCHANGED <<h, h_err>>

H_Save ==
    /\ h_pc = "save"
    /\ H_SaveSeen(Steady(fs.des001 # << >>, 5))
    /\ HFrame

(* STEP 6 and the summary: plots are drawn and the function returns.      *)
(* seen[1] is the existence check before plotting the sizing script's     *)
(* point, seen[2] the one before printing the deltas.                     *)
H_FinishSeen(seen) ==
    IF seen[1] /\ Unbound(h) THEN HRaise("UnboundLocalError")
    ELSE IF seen[1] /\ ~HasFields(h.des001_data, "parameters", {"feed_pressure_MPa"})
    THEN HRaise("KeyError")
    ELSE IF seen[2] /\ Unbound(h) THEN HRaise("UnboundLocalError")
    ELSE /\ h_pc' = "done"
         /\ UNCHANGED <<h, h_err, fs, writes>>

H_Finish ==
    /\ h_pc = "plots"
    /\ H_FinishSeen(Steady(fs.des001 # << >>, 2))
    /\ HFrame

Next ==
    \/ P_Step1 \/ P_Step2 \/ P_Step3 \/ P_Step4to8 \/ P_Compliance \/ P_WriteOutput \/ P_Exit
    \/ H_GasProperties \/ H_Sizing \/ H_Sweep \/ H_Compare \/ H_Save \/ H_Finish

Spec == Init /\ [][Next]_vars

(***************************************************************************)
(* Repeated runs.  SpecRerun lets the verification script be run again     *)
(* after it has finished, up to MaxHarnessRuns times, before or after the  *)
(* sizing script, and starts with or without a record left in the sizing   *)
(* script's file by an earlier run.                                        *)
(***************************************************************************)
MaxHarnessRuns == 2

\* The fields the scripts that read the stored record take from it.
EarlierRecord ==
    [design_id |-> "DES-001",
     parameters |-> [feed_pressure_MPa |-> Fl(3, -1), chamber_pressure_MPa |-> Fl(21, -2),
                     chamber_temperature_K |-> Fl(1400, 0)],
     computed_results |-> [thrust_N |-> Fl(11, -1), specific_impulse_s |-> Fl(300, 0),
                           mass_flow_rate_kg_s |-> Fl(374, -6),
                           throat_area_m2 |-> Fl(1, -5),
                           throat_diameter_mm |-> Fl(357, -2),
                           exit_diameter_mm |-> Fl(357, -1),
                           nozzle_length_mm |-> Fl(60, 0),
                           exit_temperature_K |-> Fl(200, 0)]]

RerunVariations ==
    {[what |-> "nominal", val |-> Zero], [what |-> "thrust", val |-> Fl(11, -1)],
     [what |-> "eta", val |-> Fl(5, -3)]}

InitRerun ==
    /\ \E v \in RerunVariations : /\ pconst = PrimaryWith(v)
                                  /\ hconst = HarnessWith(v)
    /\ p_pc = "start" /\ p = NoLocals /\ p_err = "none" /\ p_exit = -1
    /\ h_pc = "start" /\ h = NoLocals /\ h_err = "none"
    /\ \E old \in {<< >>, <<EarlierRecord>>} : fs = [des001 |-> old, ver001 |-> << >>]
    /\ writes = [des001 |-> 0, ver001 |-> 0]
    /\ e_pc = "off" /\ e_in = NoLocals /\ e_out = NoLocals

\* The verification script is started again.
H_Restart ==
    /\ h_pc = "done" /\ PrimaryQuiet
    /\ writes.ver001 < MaxHarnessRuns
    /\ h_pc' = "start"
    /\ h' = NoLocals
    /\ UNCHANGED <<h_err, fs, writes>>
    /\ HFrame

NextRerun ==
    \/ P_Step1 \/ P_Step2 \/ P_Step3 \/ P_Step4to8 \/ P_Compliance \/ P_WriteOutput \/ P_Exit
    \/ H_GasProperties \/ H_Sizing \/ H_Sweep \/ H_Compare \/ H_Save \/ H_Finish
    \/ H_Restart

SpecRerun == InitRerun /\ [][NextRerun]_vars

(***************************************************************************)
(* The evaluators on their own.  SpecEval applies the compliance loop body *)
(* of the sizing script, the two requirement blocks of the verification    *)
(* script and its comparison step to drawn values of the computed          *)
(* quantity, of the thresholds and of the stored primary value.            *)
(***************************************************************************)
ComputedValues ==
    {Fl(9, -1), Fl(94, -2), Fl(95, -2), Fl(97, -2), Fl(1, 0), Fl(103, -2), Fl(105, -2),
     Fl(106, -2), Fl(11, -1), Fl(210, 0), Fl(220, 0), Fl(2241, -1), Fl(230, 0)}

Bands == {<<Fl(95, -2), Fl(105, -2)>>, <<Fl(220, 0), Fl(225, 0)>>, <<Fl(105, -2), Fl(95, -2)>>}

Agent2Values == {Fl(1, 0), Fl(200, 0), Fl(220, 0)}

EvalInit ==
    /\ pconst = DES001_CONSTANTS /\ hconst = VER001_CONSTANTS
    /\ p_pc = "start" /\ p = NoLocals /\ p_err = "none" /\ p_exit = -1
    /\ h_pc = "start" /\ h = NoLocals /\ h_err = "none"
    /\ fs = [des001 |-> << >>, ver001 |-> << >>]
    /\ writes = [des001 |-> 0, ver001 |-> 0]
    /\ e_pc = "ready" /\ e_out = NoLocals
    /\ \E x \in ComputedValues, b \in Bands, a \in Agent2Values :
          e_in = [computed |-> x, threshold_min |-> b[1], threshold_max |-> b[2], agent2 |-> a]

EFrame == UNCHANGED <<pconst, hconst, pvars, hvars, fs, writes, e_in>>

\* DES-001, a range requirement with the drawn band.
E_Range ==
    /\ e_pc = "ready"
    /\ e_out' = evaluate_requirement([id |-> "REQ-001", threshold_min |-> e_in.threshold_min,
                                      threshold_max |-> e_in.threshold_max,
                                      computed |-> e_in.computed, type |-> "range"])
    /\ e_pc' = "range"
    /\ EFrame

\* DES-001, a minimum requirement with the drawn threshold.
E_Minimum ==
    /\ e_pc = "ready"
    /\ e_out' = evaluate_requirement([id |-> "REQ-002", threshold_min |-> e_in.threshold_min,
                                      threshold_max |-> Fl(1, 30),
                                      computed |-> e_in.computed, type |-> "minimum"])
    /\ e_pc' = "minimum"
    /\ EFrame

\* VER-001, REQ-001 block.
E_Req001 ==
    /\ e_pc = "ready"
    /\ e_out' = req_001_result(e_in.computed)
    /\ e_pc' = "req_001"
    /\ EFrame

\* VER-001, REQ-002 block.
E_Req002 ==
    /\ e_pc = "ready"
    /\ e_out' = req_002_result(e_in.computed)
    /\ e_pc' = "req_002"
    /\ EFrame

\* VER-001, STEP 4 with a stored primary record holding the drawn value.
E_Compare ==
    /\ e_pc = "ready"
    /\ e_out' = compare_with_agent2(e_in.computed, e_in.computed,
                     [computed_results |-> [thrust_N |-> e_in.agent2,
                                            specific_impulse_s |-> e_in.agent2]])
    /\ e_pc' = "compared"
    /\ EFrame

\* VER-002, main: the comparison of one propellant mass with the stored one.
ver002_compare(agent3_mass, agent2_mass) ==
    LET delta     == FAbs(FSub(agent3_mass, agent2_mass))
        delta_pct == FMul(FDiv(delta, agent2_mass), Hundred)
    IN  [agent2_nominal_mass_kg |-> agent2_mass, agent3_nominal_mass_kg |-> agent3_mass,
         delta_nominal_kg |-> delta, delta_nominal_pct |-> delta_pct,
         agreement_nominal |-> FLt(delta_pct, Fl(5, 0))]

\* VER-012, compare_with_design: the comparison of the maximum stress.
ver012_compare(independent_max_stress, design_max_stress) ==
    LET stress_delta == FMul(FDiv(FSub(independent_max_stress, design_max_stress),
                                  design_max_stress), Hundred)
    IN  [independent_MPa |-> independent_max_stress, design_MPa |-> design_max_stress,
         delta_percent |-> stress_delta,
         discrepancy_flag |-> FGt(FAbs(stress_delta), Fl(5, 0))]

\* VER-002 with a stored record holding the drawn value.
E_CompareVER002 ==
    /\ e_pc = "ready"
    /\ e_out' = ver002_compare(e_in.computed, e_in.agent2)
    /\ e_pc' = "compared_ver002"
    /\ EFrame

\* VER-012 with a design record holding the drawn value.
E_CompareVER012 ==
    /\ e_pc = "ready"
    /\ e_out' = ver012_compare(e_in.computed, e_in.agent2)
    /\ e_pc' = "compared_ver012"
    /\ EFrame

EvalNext ==
    \/ E_Range \/ E_Minimum \/ E_Req001 \/ E_Req002 \/ E_Compare
    \/ E_CompareVER002 \/ E_CompareVER012

SpecEval == EvalInit /\ [][EvalNext]_vars

(***************************************************************************)
(* The functions on their own.  SpecFn applies one function of the scripts *)
(* to arguments drawn from small sets that include values outside the      *)
(* physical domain.  e_in holds the function's name and its arguments,     *)
(* e_out what the call returned or raised.                                 *)
(***************************************************************************)
GammaValues == {Zero, Fl(5, -1), Fl(9, -1), One, Fl(128, -2)}

GasConstantValues == {Fl(-5196, -1), Zero, Fl(5196, -1)}

MolecularWeightValues == {Fl(-16, 0), Zero, Fl(16, 0)}

TemperatureValues == {Fl(-1400, 0), Zero, Fl(1400, 0)}

AlphaValues == {Fl(-3, 0), Fl(-2, 0), Fl(-5, -1), Zero, Fl(5, -1), One, Fl(15, -1), Fl(2, 0)}

CStarInputs ==
    [fn : {"compute_c_star"}, gamma : GammaValues, R_specific : GasConstantValues,
     T_c : TemperatureValues]
    \cup [fn : {"compute_characteristic_velocity"}, gamma : GammaValues,
          M_bar : MolecularWeightValues, T_c : TemperatureValues]

GasInputs == [fn : {"compute_gas_properties", "compute_mean_molecular_weight"}, alpha : AlphaValues]

AreaRatioValues == {Fl(100001, -5), Fl(2, 0), Fl(10, 0), Fl(50, 0), Fl(100, 0), Fl(5000, 0)}

SolverGammaValues == {Fl(1245, -3), Fl(128, -2), Fl(14, -1)}

MachInputs == [fn : {"exit_mach"}, area_ratio : AreaRatioValues, gamma : SolverGammaValues]

\* Pairs of area ratios, the smaller first.
AreaRatioPairs ==
    {pr \in (AreaRatioValues \cup {Fl(10001, -2)}) \X (AreaRatioValues \cup {Fl(10001, -2)}) :
        FLt(pr[1], pr[2])}

ExpansionInputs ==
    [fn : {"compute_isentropic_expansion", "compute_nozzle_flow_properties"},
     area_ratios : AreaRatioPairs, gamma : {Fl(1245, -3), Fl(128, -2)},
     P_c : {Fl(210000, 0)}, T_c : {T_CHAMBER}]

FnInputs == CStarInputs \cup GasInputs \cup MachInputs \cup ExpansionInputs

FnInit ==
    /\ pconst = DES001_CONSTANTS /\ hconst = VER001_CONSTANTS
    /\ p_pc = "start" /\ p = NoLocals /\ p_err = "none" /\ p_exit = -1
    /\ h_pc = "start" /\ h = NoLocals /\ h_err = "none"
    /\ fs = [des001 |-> << >>, ver001 |-> << >>]
    /\ writes = [des001 |-> 0, ver001 |-> 0]
    /\ e_pc = "call" /\ e_out = NoLocals
    /\ e_in \in FnInputs

\* DES-001, compute_c_star.
F_CStar ==
    /\ e_pc = "call" /\ e_in.fn = "compute_c_star"
    /\ e_out' = compute_c_star(e_in.gamma, e_in.R_specific, e_in.T_c)
    /\ e_pc' = "returned"
    /\ EFrame

\* VER-001, compute_characteristic_velocity.
F_CharacteristicVelocity ==
    /\ e_pc = "call" /\ e_in.fn = "compute_characteristic_velocity"
    /\ e_out' = compute_characteristic_velocity(e_in.T_c, e_in.gamma, e_in.M_bar)
    /\ e_pc' = "returned"
    /\ EFrame

\* DES-001, compute_gas_properties.
F_GasProperties ==
    /\ e_pc = "call" /\ e_in.fn = "compute_gas_properties"
    /\ e_out' = compute_gas_properties(e_in.alpha)
    /\ e_pc' = "returned"
    /\ EFrame

\* VER-001, compute_mean_molecular_weight.
F_MeanMolecularWeight ==
    /\ e_pc = "call" /\ e_in.fn = "compute_mean_molecular_weight"
    /\ e_out' = compute_mean_molecular_weight(e_in.alpha)
    /\ e_pc' = "returned"
    /\ EFrame

\* DES-001, exit_mach_from_area_ratio.
F_ExitMachPrimary ==
    /\ e_pc = "call" /\ e_in.fn = "exit_mach" /\ "primary" \notin DOMAIN e_out
    /\ e_out' = e_out @@ [primary |-> exit_mach_from_area_ratio(e_in.area_ratio, e_in.gamma)]
    /\ e_pc' = IF "harness" \in DOMAIN e_out THEN "returned" ELSE "call"
    /\ EFrame

\* VER-001, solve_exit_mach_number, on the same arguments.
F_ExitMachHarness ==
    /\ e_pc = "call" /\ e_in.fn = "exit_mach" /\ "harness" \notin DOMAIN e_out
    /\ e_out' = e_out @@ [harness |-> solve_exit_mach_number(e_in.area_ratio, e_in.gamma)]
    /\ e_pc' = IF "primary" \in DOMAIN e_out THEN "returned" ELSE "call"
    /\ EFrame

\* The results of the calls made so far on the area ratios of e_in.
Results(o) == IF "results" \in DOMAIN o THEN o.results ELSE << >>

\* DES-001, main() step 3: the exit Mach number sol and the expansion from it.
ExpansionFrom(sol, P_c, gamma, R_specific, T_c) ==
    IF Raised(sol) THEN [err |-> sol.err]
    ELSE [M_e |-> sol.root] @@ compute_isentropic_expansion(sol.root, P_c, gamma, R_specific, T_c)

\* DES-001, exit_mach_from_area_ratio and compute_isentropic_expansion on the
\* next area ratio, with the gas constant of the nominal gas.
F_Expansion ==
    /\ e_pc = "call" /\ e_in.fn = "compute_isentropic_expansion"
    /\ e_out' = [results |->
                   Append(Results(e_out),
                          ExpansionFrom(exit_mach_from_area_ratio(
                                            e_in.area_ratios[Len(Results(e_out)) + 1], e_in.gamma),
                                        e_in.P_c, e_in.gamma,
                                        compute_gas_properties(ALPHA).R_specific, e_in.T_c))]
    /\ e_pc' = IF Len(Results(e_out)) = 1 THEN "returned" ELSE "call"
    /\ EFrame

\* VER-001, compute_nozzle_flow_properties on the next area ratio, with the
\* mean molecular weight of the nominal gas.
F_NozzleFlow ==
    /\ e_pc = "call" /\ e_in.fn = "compute_nozzle_flow_properties"
    /\ e_out' = [results |->
                   Append(Results(e_out),
                          compute_nozzle_flow_properties(
                              e_in.T_c, e_in.P_c, e_in.area_ratios[Len(Results(e_out)) + 1],
                              e_in.gamma, compute_mean_molecular_weight(ALPHA).M_bar))]
    /\ e_pc' = IF Len(Results(e_out)) = 1 THEN "returned" ELSE "call"
    /\ EFrame

FnNext ==
    \/ F_Expansion \/ F_NozzleFlow
    \/ F_CStar \/ F_CharacteristicVelocity
    \/ F_GasProperties \/ F_MeanMolecularWeight
    \/ F_ExitMachPrimary \/ F_ExitMachHarness

SpecFn == FnInit /\ [][FnNext]_vars

(***************************************************************************)
(* Readers of the sizing script's record.  SpecShared runs one reader, the *)
(* verification script VER-001, the structural sizing script DES-004       *)
(* (chamber_nozzle_stress.py) or the mass-budget verification VER-002,     *)
(* while the record's file may be written, replaced or removed by others   *)
(* at any moment, and may hold a record that lacks fields.                 *)
(***************************************************************************)
Without(d, group, field) ==
    [d EXCEPT ![group] = [k \in DOMAIN d[group] \ {field} |-> d[group][k]]]

StoredRecords ==
    {EarlierRecord,
     Without(EarlierRecord, "computed_results", "thrust_N"),
     Without(EarlierRecord, "computed_results", "mass_flow_rate_kg_s"),
     Without(EarlierRecord, "computed_results", "throat_diameter_mm"),
     Without(EarlierRecord, "parameters", "feed_pressure_MPa"),
     [design_id |-> "DES-001", parameters |-> EarlierRecord.parameters]}

Readers == {"VER-001", "DES-004", "VER-002"}

InitShared ==
    /\ pconst = DES001_CONSTANTS /\ hconst = VER001_CONSTANTS
    /\ p_pc = "start" /\ p = NoLocals /\ p_err = "none" /\ p_exit = -1
    /\ h_pc = "start" /\ h = NoLocals /\ h_err = "none"
    /\ \E old \in {<< >>} \cup {<<d>> : d \in StoredRecords} :
           fs = [des001 |-> old, ver001 |-> << >>]
    /\ writes = [des001 |-> 0, ver001 |-> 0]
    /\ e_pc = "call" /\ e_out = NoLocals
    /\ \E r \in Readers : e_in = [reader |-> r]

\* Another process writes or replaces the sizing script's file.
Env_Publish ==
    /\ \E d \in StoredRecords : /\ fs.des001 # <<d>>
                                 /\ fs' = [fs EXCEPT !.des001 = <<d>>]
    /\ UNCHANGED <<pconst, hconst, pvars, hvars, evars, writes>>

\* Another process removes the sizing script's file.
Env_Remove ==
    /\ fs.des001 # << >>
    /\ fs' = [fs EXCEPT !.des001 = << >>]
    /\ UNCHANGED <<pconst, hconst, pvars, hvars, evars, writes>>

(* STEP 5 of VER-001 when the file may change between two existence checks. *)
H_SaveRacing ==
    /\ h_pc = "save"
    /\ \E seen \in [1..5 -> BOOLEAN] : H_SaveSeen(seen)
    /\ HFrame

(* STEP 6 and the summary of VER-001 under the same conditions. *)
H_FinishRacing ==
    /\ h_pc = "plots"
    /\ \E seen \in [1..2 -> BOOLEAN] : H_FinishSeen(seen)
    /\ HFrame

\* DES-004, open() and json.load of the record.
load_des001_data(files) ==
    IF files.des001 = << >> THEN [err |-> "FileNotFoundError"]
    ELSE [err |-> "none", data |-> files.des001[1]]

ENVELOPE_DIAMETER_mm == Fl(100, 0)
ENVELOPE_LENGTH_mm == Fl(150, 0)
NOZZLE_MAX_TEMP_C == Fl(800, 0)

calculate_chamber_geometry(des001_data, chamber_radius_mm) ==
    IF ~HasFields(des001_data, "computed_results", {"throat_diameter_mm", "throat_area_m2"})
    THEN [err |-> "KeyError"]
    ELSE LET throat_diameter_mm == des001_data.computed_results.throat_diameter_mm
             throat_area_m2     == des001_data.computed_results.throat_area_m2
             chamber_diameter_m == FDiv(FMul(Two, chamber_radius_mm), Fl(1000, 0))
             chamber_area_m2    == FMul(PI, FMul(FDiv(chamber_diameter_m, Two),
                                                 FDiv(chamber_diameter_m, Two)))
             L_star             == Fl(75, -2)
         IN  IF throat_diameter_mm.m = 0 \/ chamber_area_m2.m = 0
             THEN [err |-> "ZeroDivisionError"]
             ELSE [err |-> "none",
                   chamber_radius_mm |-> chamber_radius_mm,
                   chamber_diameter_mm |-> FMul(chamber_diameter_m, Fl(1000, 0)),
                   contraction_ratio |-> FDiv(FMul(chamber_radius_mm, Two), throat_diameter_mm),
                   chamber_area_m2 |-> chamber_area_m2,
                   chamber_length_m |-> FDiv(FMul(L_star, throat_area_m2), chamber_area_m2),
                   chamber_length_mm |-> FMul(FDiv(FMul(L_star, throat_area_m2), chamber_area_m2),
                                              Fl(1000, 0)),
                   throat_diameter_mm |-> throat_diameter_mm,
                   L_star_m |-> L_star]

calculate_nozzle_properties(des001_data) ==
    IF ~HasFields(des001_data, "computed_results",
                  {"exit_diameter_mm", "nozzle_length_mm", "exit_temperature_K"})
    THEN [err |-> "KeyError"]
    ELSE LET exit_diameter_mm   == des001_data.computed_results.exit_diameter_mm
             nozzle_length_mm   == des001_data.computed_results.nozzle_length_mm
             exit_temperature_K == des001_data.computed_results.exit_temperature_K
             exit_temperature_C == FSub(exit_temperature_K, Fl(27315, -2))
         IN  [err |-> "none",
              exit_diameter_mm |-> exit_diameter_mm,
              nozzle_length_mm |-> nozzle_length_mm,
              exit_temperature_C |-> exit_temperature_C,
              exit_temperature_K |-> exit_temperature_K,
              envelope_diameter_check |-> FLe(exit_diameter_mm, ENVELOPE_DIAMETER_mm),
              envelope_length_check |-> FLe(nozzle_length_mm, ENVELOPE_LENGTH_mm),
              temp_constraint_check |-> FLe(exit_temperature_C, NOZZLE_MAX_TEMP_C),
              temp_margin_C |-> FSub(NOZZLE_MAX_TEMP_C, exit_temperature_C)]

(* DES-004, main: the reads of the record and the two functions that are  *)
(* handed the record; the sizing steps between them do not read it.       *)
S_MainSized(des001_data, chamber_geometry, nozzle_props) ==
    IF Raised(chamber_geometry) THEN chamber_geometry
    ELSE IF Raised(nozzle_props) THEN nozzle_props
    ELSE [err |-> "none",
          chamber_pressure_MPa |-> des001_data.parameters.chamber_pressure_MPa,
          chamber_temperature_K |-> des001_data.parameters.chamber_temperature_K,
          chamber_geometry |-> chamber_geometry, nozzle_props |-> nozzle_props]

S_MainLoaded(des001_data) ==
    IF ~(/\ HasFields(des001_data, "parameters",
                      {"chamber_pressure_MPa", "chamber_temperature_K"})
         /\ HasFields(des001_data, "computed_results", {"throat_diameter_mm"}))
    THEN [err |-> "KeyError"]
    ELSE S_MainSized(des001_data,
                     calculate_chamber_geometry(
                         des001_data,
                         FDiv(FMul(des001_data.computed_results.throat_diameter_mm, Fl(3, 0)),
                              Two)),
                     calculate_nozzle_properties(des001_data))

S_Main ==
    /\ e_pc = "call" /\ e_in.reader = "DES-004"
    /\ LET loaded == load_des001_data(fs)
       IN  e_out' = IF Raised(loaded) THEN loaded ELSE S_MainLoaded(loaded.data)
    /\ e_pc' = "returned"
    /\ EFrame

\* VER-002, calculate_propellant_mass_from_impulse.
calculate_propellant_mass_from_impulse(total_impulse_ns, isp_s, margin_pct) ==
    IF isp_s.m = 0 THEN [err |-> "ZeroDivisionError"]
    ELSE LET m_base        == FDiv(total_impulse_ns, FMul(isp_s, G0))
             m_with_margin == FMul(m_base, FAdd(One, FDiv(margin_pct, Hundred)))
         IN  [err |-> "none", impulse_ns |-> total_impulse_ns, isp_s |-> isp_s,
              g0_m_s2 |-> G0, mass_base_kg |-> m_base, margin_pct |-> margin_pct,
              mass_with_margin_kg |-> m_with_margin,
              mass_margin_kg |-> FSub(m_with_margin, m_base)]

(* VER-002: the record is loaded when the module is imported; main reads   *)
(* three fields of computed_results and computes the nominal mass.         *)
V2_MainLoaded(agent2_perf) ==
    IF ~HasFields(agent2_perf, "computed_results",
                  {"specific_impulse_s", "thrust_N", "mass_flow_rate_kg_s"})
    THEN [err |-> "KeyError"]
    ELSE LET result_nominal == calculate_propellant_mass_from_impulse(
                                   Fl(50000, 0), agent2_perf.computed_results.specific_impulse_s,
                                   Fl(10, 0))
         IN  IF Raised(result_nominal) THEN result_nominal
             ELSE [err |-> "none",
                   design_isp_s |-> agent2_perf.computed_results.specific_impulse_s,
                   design_thrust_N |-> agent2_perf.computed_results.thrust_N,
                   design_mass_flow_kg_s |-> agent2_perf.computed_results.mass_flow_rate_kg_s,
                   result_nominal |-> result_nominal]

V2_Main ==
    /\ e_pc = "call" /\ e_in.reader = "VER-002"
    /\ e_out' = IF fs.des001 = << >> THEN [err |-> "FileNotFoundError"]
                ELSE V2_MainLoaded(fs.des001[1])
    /\ e_pc' = "returned"
    /\ EFrame

Reads(reader) == e_in.reader = reader

NextShared ==
    \/ Env_Publish \/ Env_Remove
    \/ S_Main \/ V2_Main
    \/ (Reads("VER-001") /\ H_GasProperties)
    \/ (Reads("VER-001") /\ H_Sizing)
    \/ (Reads("VER-001") /\ H_Sweep)
    \/ (Reads("VER-001") /\ H_Compare)
    \/ (Reads("VER-001") /\ H_SaveRacing)
    \/ (Reads("VER-001") /\ H_FinishRacing)

SpecShared == InitShared /\ [][NextShared]_vars

(***************************************************************************)
(* Properties.                                                             *)
(***************************************************************************)
PrimarySized == p_pc \in {"compliance", "output", "return", "exited"}

HarnessSized == h_pc \in {"sweep", "compare", "save", "plots", "done"}

\* |x - target| <= tol * |target|
WithinRel(x, target, tol) == FLe(FAbs(FSub(x, target)), FMul(tol, FAbs(target)))

ValidPrimaryConstants ==
    /\ FGt(pconst.GAMMA, One) /\ FGt(pconst.DESIGN_CHAMBER_PRESSURE, Zero)
    /\ FGt(pconst.T_CHAMBER, Zero) /\ FGt(pconst.DESIGN_EXPANSION_RATIO, One)
    /\ FGt(pconst.NOZZLE_EFFICIENCY, Zero) /\ FLe(pconst.NOZZLE_EFFICIENCY, One)
    /\ FGt(pconst.TARGET_THRUST, Zero)

ValidHarnessConstants ==
    /\ FGt(hconst.DESIGN_INPUTS.expansion_ratio, One)
    /\ FGt(hconst.DESIGN_INPUTS.chamber_temperature_K, Zero)
    /\ FGt(hconst.DESIGN_INPUTS.feed_pressure_nominal_MPa, Zero)
    /\ FGt(hconst.DESIGN_INPUTS.nozzle_efficiency, Zero)
    /\ FLe(hconst.DESIGN_INPUTS.nozzle_efficiency, One)
    /\ FGt(hconst.thrust_target, Zero)

(* C1: for valid design constants the thrust recomputed from the solved    *)
(* throat area, mdot * V_e + P_e * A_e, equals the target thrust to within *)
(* 1e-6 relative error, in the sizing script (thrust_actual) and in the    *)
(* verification script (F_nominal).                                        *)
C1_ThrustClosure ==
    /\ PrimarySized /\ ValidPrimaryConstants
          => WithinRel(p.thrust_actual, pconst.TARGET_THRUST, Fl(1, -6))
    /\ HarnessSized /\ ValidHarnessConstants
          => WithinRel(h.F_nominal, hconst.thrust_target, Fl(1, -6))

\* Both scripts have sized the throat for a target thrust of 1.1 N.
C1_Witness ==
    /\ PrimarySized /\ ValidPrimaryConstants /\ HarnessSized /\ ValidHarnessConstants
    /\ pconst.TARGET_THRUST = Fl(11, -1) /\ hconst.thrust_target = Fl(11, -1)
    /\ p.At.m > 0 /\ h.At.m > 0

\* (secondary - primary) / primary * 100
SignedDelta(secondary, primary) == FMul(FDiv(FSub(secondary, primary), primary), Hundred)

(* C2: for every compared field the delta of the comparison is the signed  *)
(* value (secondary - primary) / primary * 100, negative when the          *)
(* secondary value is below the primary one, and the field is flagged iff  *)
(* the magnitude of the delta exceeds 5.0.                                 *)
C2_SignedDelta ==
    e_pc = "compared" =>
        /\ e_out.thrust_delta_percent = SignedDelta(e_out.agent3_thrust_N, e_out.agent2_thrust_N)
        /\ e_out.Isp_delta_percent = SignedDelta(e_out.agent3_Isp_s, e_out.agent2_Isp_s)
        /\ e_out.thrust_flag <=> FGt(FAbs(e_out.thrust_delta_percent), Fl(5, 0))
        /\ e_out.Isp_flag <=> FGt(FAbs(e_out.Isp_delta_percent), Fl(5, 0))
        /\ FLt(e_out.agent3_thrust_N, e_out.agent2_thrust_N) => e_out.thrust_delta_percent.m < 0

\* The one-sided margins of a band, in percent of the respective end.
LowerMargin(x, lo) == FMul(FDiv(FSub(x, lo), lo), Hundred)

UpperMargin(x, hi) == FMul(FDiv(FSub(hi, x), hi), Hundred)

(* C3: for a band requirement [lo, hi] the sizing script reports the        *)
(* smaller of the two one-sided margins and PASS iff lo <= computed <= hi;  *)
(* with lo > 0 and hi > 0 the verdict is PASS iff the reported margin is    *)
(* not negative.                                                           *)
C3_BandMargin ==
    e_pc = "range" =>
        /\ e_out.margin = FMin(LowerMargin(e_in.computed, e_in.threshold_min),
                               UpperMargin(e_in.computed, e_in.threshold_max))
        /\ e_out.status = "PASS"
              <=> FLe(e_in.threshold_min, e_in.computed) /\ FLe(e_in.computed, e_in.threshold_max)
        /\ FGt(e_in.threshold_min, Zero) /\ FGt(e_in.threshold_max, Zero)
              => (e_out.status = "PASS" <=> FGe(e_out.margin, Zero))

\* A thrust of 1.0 N in the band [0.95, 1.05]: PASS with a margin of 4.76 %.
C3_Witness ==
    /\ e_pc = "range" /\ e_in.computed = Fl(1, 0)
    /\ e_in.threshold_min = Fl(95, -2) /\ e_in.threshold_max = Fl(105, -2)
    /\ e_out.status = "PASS"
    /\ FGt(e_out.margin, Fl(476, -2)) /\ FLt(e_out.margin, Fl(477, -2))

(* C4: for a minimum requirement the reported margin is                    *)
(* (computed - threshold) / threshold * 100 and the verdict is PASS iff    *)
(* computed >= threshold, in the sizing script and in the verification     *)
(* script (whose threshold is 220); with threshold 220, 210 gives FAIL     *)
(* with a negative margin and 224.1 gives PASS with a positive margin.     *)
C4_MinimumMargin ==
    /\ e_pc = "minimum" =>
          /\ e_out.margin = LowerMargin(e_in.computed, e_in.threshold_min)
          /\ e_out.status = "PASS" <=> FGe(e_in.computed, e_in.threshold_min)
          /\ e_in.threshold_min = Fl(220, 0) /\ e_in.computed = Fl(210, 0)
                => e_out.status = "FAIL" /\ e_out.margin.m < 0
          /\ e_in.threshold_min = Fl(220, 0) /\ e_in.computed = Fl(2241, -1)
                => e_out.status = "PASS" /\ e_out.margin.m > 0
    /\ e_pc = "req_002" =>
          /\ e_out.margin_percent = LowerMargin(e_in.computed, Fl(220, 0))
          /\ e_out.status = "PASS" <=> FGe(e_in.computed, Fl(220, 0))
          /\ e_in.computed = Fl(210, 0) => e_out.status = "FAIL" /\ e_out.margin_percent.m < 0
          /\ e_in.computed = Fl(2241, -1) => e_out.status = "PASS" /\ e_out.margin_percent.m > 0

\* The sizing script's evaluator has rated 210 against the minimum 220.
C4_Witness ==
    /\ e_pc = "minimum" /\ e_in.threshold_min = Fl(220, 0) /\ e_in.computed = Fl(210, 0)
    /\ e_out.status = "FAIL" /\ e_out.margin.m < 0

\* The statuses of the compliance records stored in the sizing script's file.
WrittenStatuses ==
    {fs.des001[1].requirements_compliance.REQ_001.status,
     fs.des001[1].requirements_compliance.REQ_002.status}

AreaMachRatio(M, gamma) ==
    FMul(FDiv(One, M),
         FPow(FMul(FDiv(Two, FAdd(gamma, One)),
                   FAdd(One, FMul(FDiv(FSub(gamma, One), Two), FMul(M, M)))),
              FDiv(FAdd(gamma, One), FMul(Two, FSub(gamma, One)))))

IsSupersonicRoot(M, area_ratio, gamma, upper) ==
    /\ FGt(M, One) /\ FGe(M, Fl(101, -2)) /\ FLe(M, upper)
    /\ WithinRel(AreaMachRatio(M, gamma), area_ratio, Fl(1, -5))

PrimarySolved == p_pc \in {"step4", "compliance", "output", "return", "exited"}

(* C6: a value returned by the exit Mach solver is greater than 1, lies    *)
(* between 1.01 and the upper end of the bracket (10 in the sizing script, *)
(* 50 in the verification script) and satisfies the area-Mach relation for *)
(* the given area ratio.                                                   *)
C6_SupersonicRoot ==
    /\ PrimarySolved =>
          IsSupersonicRoot(p.M_e, pconst.DESIGN_EXPANSION_RATIO, pconst.GAMMA, Fl(10, 0))
    /\ HarnessSized =>
          IsSupersonicRoot(h.flow_props.exit_Mach, h.area_ratio, h.gamma, Fl(50, 0))

\* Both solvers have returned the exit Mach number for an area ratio of 50.
C6_Witness ==
    /\ PrimarySolved /\ HarnessSized
    /\ pconst.DESIGN_EXPANSION_RATIO = Fl(50, 0) /\ h.area_ratio = Fl(50, 0)
    /\ FGt(p.M_e, Fl(4, 0)) /\ FGt(h.flow_props.exit_Mach, Fl(4, 0))

\* The residual has the same sign at both ends of the bracket [a, b].
SameSignAtEnds(impl, area_ratio, gamma, a, b) ==
    ISgn(Residual(impl, a, area_ratio, gamma).m) * ISgn(Residual(impl, b, area_ratio, gamma).m) > 0

PrimaryCalledSolver == "c_star" \in DOMAIN p /\ p_pc # "step3"

HarnessCalledSolver == "c_star" \in DOMAIN h /\ h_pc # "step2"

(* C7: when the area ratio is <= 1, or the residual has the same sign at   *)
(* both ends of the bracket, a call of the exit Mach solver ends the run   *)
(* with a ValueError and no exit Mach number is returned.                  *)
C7_SolverFails ==
    /\ /\ PrimaryCalledSolver
       /\ \/ FLe(pconst.DESIGN_EXPANSION_RATIO, One)
          \/ SameSignAtEnds("primary", pconst.DESIGN_EXPANSION_RATIO, pconst.GAMMA,
                            Fl(101, -2), Fl(10, 0))
       => p_pc = "aborted" /\ p_err = "ValueError" /\ "M_e" \notin DOMAIN p
    /\ /\ HarnessCalledSolver
       /\ \/ FLe(h.area_ratio, One)
          \/ SameSignAtEnds("harness", h.area_ratio, h.gamma, Fl(101, -2), Fl(50, 0))
       => h_pc = "aborted" /\ h_err = "ValueError" /\ "flow_props" \notin DOMAIN h

\* The sizing script's solver has been called with an area ratio of 0.5.
C7_Witness ==
    /\ PrimaryCalledSolver /\ pconst.DESIGN_EXPANSION_RATIO = Fl(5, -1)
    /\ p_pc = "aborted" /\ p_err = "ValueError"

PrimaryResults ==
    {"M_bar", "R_specific", "c_star", "M_e", "P_e", "T_e", "V_e", "At", "mdot_required",
     "Ae", "thrust_actual", "Isp", "all_pass", "margins"}

IsComplianceRecord(r) ==
    /\ r.status \in {"PASS", "FAIL"}
    /\ DOMAIN r.margin_percent = {"m", "e"}

(* C9: a failed requirement neither ends the run nor skips the later       *)
(* checks: once thrust and Isp are computed the run is never aborted, both *)
(* REQ-001 and REQ-002 get a margin and a compliance record with status    *)
(* PASS or FAIL, and the output record is written.                         *)
C9_FailureDoesNotAbort ==
    /\ p_pc = "aborted" => "thrust_actual" \notin DOMAIN p
    /\ p_pc \in {"output", "return", "exited"} =>
          {p.margins[k].id : k \in 1..Len(p.margins)} = {"REQ-001", "REQ-002"}
    /\ p_pc \in {"return", "exited"} =>
          /\ fs.des001 # << >>
          /\ IsComplianceRecord(fs.des001[1].requirements_compliance.REQ_001)
          /\ IsComplianceRecord(fs.des001[1].requirements_compliance.REQ_002)

\* A finished run whose record holds a FAIL for REQ-001 and a PASS for REQ-002.
C9_Witness ==
    /\ p_pc = "exited" /\ fs.des001 # << >>
    /\ fs.des001[1].requirements_compliance.REQ_001.status = "FAIL"
    /\ fs.des001[1].requirements_compliance.REQ_002.status = "PASS"
    /\ fs.des001[1].requirements_compliance.REQ_002.margin_percent.m > 0

HarnessHasInputs == h_pc \in {"step2", "sweep", "compare", "save", "plots", "done"}

(* C10: with the constants as written in the two scripts, every design     *)
(* constant the verification script uses (gamma, alpha, chamber            *)
(* temperature, chamber pressure, area ratio, nozzle efficiency, target    *)
(* thrust) has the value it has in the sizing script.                      *)
C10_SameConstants ==
    pconst = DES001_CONSTANTS /\ hconst = VER001_CONSTANTS /\ HarnessHasInputs =>
        /\ h.gamma = pconst.GAMMA
        /\ h.alpha = pconst.ALPHA
        /\ h.Tc = pconst.T_CHAMBER
        /\ h.Pc_nominal = FMul(pconst.DESIGN_CHAMBER_PRESSURE, Fl(1, 6))
        /\ h.area_ratio = pconst.DESIGN_EXPANSION_RATIO
        /\ h.nozzle_efficiency = pconst.NOZZLE_EFFICIENCY
        /\ hconst.thrust_target = pconst.TARGET_THRUST

\* The part of the verification record that is not the comparison.
OwnResults(r) ==
    [computed_gas_properties |-> r.computed_gas_properties,
     thruster_sizing |-> r.thruster_sizing,
     nominal_performance |-> r.nominal_performance,
     pressure_sweep |-> r.pressure_sweep,
     requirements_verification |-> r.requirements_verification]

(* C11: a run of the verification script that is about to save its record  *)
(* while the record of its previous run is still in the file has the same  *)
(* gas properties, sizing, nominal performance, sweep and REQ-001/REQ-002   *)
(* results as the previous run, whatever the sizing script's file held (or *)
(* did not hold) during either run; and it is not ended by an error the    *)
(* previous run did not have.                                              *)
C11_HarnessIndependent ==
    fs.ver001 # << >> =>
        /\ h_pc # "aborted"
        /\ h_pc = "save" =>
              OwnResults(output_data(hconst, h, Steady(fs.des001 # << >>, 5))) = OwnResults(fs.ver001[1])

\* The previous run had no stored record to compare with, this one has.
C11_Witness ==
    /\ h_pc = "save" /\ fs.ver001 # << >>
    /\ IsNone(fs.ver001[1].comparison_with_agent2)
    /\ ~IsNone(h.comparison)
    /\ h.comparison.agent2_thrust_N = p.thrust_actual

\* A comparison was made and one of its deltas exceeds 5 %.
Flagged(cmp) == ~IsNone(cmp) /\ (cmp.thrust_flag \/ cmp.Isp_flag)

\* The comparison entry of a written record holds both scripts' values.
SideBySide(cmp, stored, F_nominal, Isp_nominal) ==
    /\ ~IsNone(cmp)
    /\ cmp.agent2_thrust_N = stored.computed_results.thrust_N
    /\ cmp.agent3_thrust_N = F_nominal
    /\ cmp.agent2_Isp_s = stored.computed_results.specific_impulse_s
    /\ cmp.agent3_Isp_s = Isp_nominal

(* C12: no step of the verification script changes the sizing script's     *)
(* file; a comparison whose delta exceeds 5 % goes on to the save step     *)
(* with the REQ-001/REQ-002 results unchanged and no error; and the save   *)
(* step after such a comparison writes the verification script's own       *)
(* record with both scripts' thrust and Isp side by side and the verdicts  *)
(* computed from its own thrust and Isp.                                   *)
C12_Advisory ==
    [][h_pc' # h_pc =>
         /\ fs'.des001 = fs.des001
         /\ writes'.des001 = writes.des001
         /\ (h_pc = "compare" /\ fs.des001 # << >>) =>
               (Flagged(h'.comparison) =>
                    /\ h_pc' = "save"
                    /\ h_err' = h_err
                    /\ h'.req_001_result = h.req_001_result
                    /\ h'.req_002_result = h.req_002_result)
         /\ (h_pc = "save" /\ Flagged(h.comparison)) =>
               /\ h_pc' = "plots"
               /\ writes'.ver001 = writes.ver001 + 1
               /\ SideBySide(fs'.ver001[1].comparison_with_agent2, fs.des001[1],
                             h.F_nominal, h.Isp_nominal)
               /\ fs'.ver001[1].requirements_verification =
                      [REQ_001 |-> req_001_result(h.F_nominal),
                       REQ_002 |-> req_002_result(h.Isp_nominal)]]_vars

\* A run that compared with a delta above 5 % has written its record and finished.
C12_Witness ==
    /\ h_pc = "done" /\ fs.ver001 # << >> /\ fs.des001 # << >>
    /\ Flagged(h.comparison)
    /\ FGt(fs.ver001[1].comparison_with_agent2.thrust_delta_percent, Fl(5, 0))

\* A call of one of the named functions has returned or raised.
Called(fns) == e_pc = "returned" /\ e_in.fn \in fns

\* The gas constant of a call of either characteristic-velocity function
\* is not positive (in VER-001 it is R_universal / M_bar * 1000).
GasConstantNotPositive ==
    IF e_in.fn = "compute_c_star" THEN FLe(e_in.R_specific, Zero) ELSE FLe(e_in.M_bar, Zero)

(* C13: a call of either characteristic-velocity function with gamma <= 1, *)
(* a gas constant <= 0 or a chamber temperature <= 0 raises an error, and  *)
(* a call that returns returns a finite number.                            *)
C13_CStarDomainError ==
    Called({"compute_c_star", "compute_characteristic_velocity"}) =>
        /\ (FLe(e_in.gamma, One) \/ GasConstantNotPositive \/ FLe(e_in.T_c, Zero)) =>
               e_out.err # "none"
        /\ e_out.err = "none" => IsFinite(e_out.c_star)

\* Moles of product gas per mole of hydrazine at dissociation degree alpha.
TotalMoles(alpha) == FAdd(FDiv(Fl(4, 0), Fl(3, 0)), FMul(FDiv(Fl(2, 0), Fl(3, 0)), alpha))

(* C14: a call of either gas-property function with alpha outside [0, 1]  *)
(* or with total moles <= 0 raises an error and returns nothing.           *)
C14_GasDomainError ==
    Called({"compute_gas_properties", "compute_mean_molecular_weight"}) =>
        ((FLt(e_in.alpha, Zero) \/ FGt(e_in.alpha, One) \/ FLe(TotalMoles(e_in.alpha), Zero)) =>
             e_out.err # "none")

\* The denominator of the throat-area equation, P_c * V_e / c* + P_e * eps.
PrimaryThroatDenominator ==
    FAdd(FDiv(FMul(p.P_c, FMul(p.V_e, pconst.NOZZLE_EFFICIENCY)), p.c_star),
         FMul(p.P_e, pconst.DESIGN_EXPANSION_RATIO))

\* A throat area, mass flow or diameter that is not a positive number.
NotPositive(x) == ~IsFinite(x) \/ FLe(x, Zero)

(* C15: a run whose throat-area denominator is <= 0 ends in an error at    *)
(* the sizing step, and no sizing with a non-positive or undefined throat  *)
(* area, mass flow or throat diameter is held by either script or written  *)
(* to either file.                                                         *)
C15_ThroatDomainError ==
    /\ PrimarySized =>
          /\ ~FLe(PrimaryThroatDenominator, Zero)
          /\ ~NotPositive(p.At) /\ ~NotPositive(p.mdot_required) /\ ~NotPositive(p.Dt)
    /\ HarnessSized => ~NotPositive(h.At) /\ ~NotPositive(h.mdot_nominal)
    /\ fs.des001 # << >> =>
          /\ ~NotPositive(fs.des001[1].computed_results.throat_area_m2)
          /\ ~NotPositive(fs.des001[1].computed_results.throat_diameter_m)
          /\ ~NotPositive(fs.des001[1].computed_results.mass_flow_rate_kg_s)
    /\ fs.ver001 # << >> =>
          /\ ~NotPositive(fs.ver001[1].thruster_sizing.throat_area_m2)
          /\ ~NotPositive(fs.ver001[1].thruster_sizing.throat_diameter_m)

(* C16: the evaluation of a range requirement whose lower bound is above  *)
(* its upper bound reports no margin and no verdict.                       *)
C16_MalformedBandRejected ==
    (e_pc = "range" /\ FGt(e_in.threshold_min, e_in.threshold_max)) =>
        /\ "margin" \notin DOMAIN e_out
        /\ "status" \notin DOMAIN e_out

\* Both solvers have been called with an area ratio and a gamma above 1.
BothSolversCalled ==
    /\ Called({"exit_mach"})
    /\ FGt(e_in.area_ratio, One) /\ FGt(e_in.gamma, One)

\* The residual changes sign over the bracket of each solver.
RootInBothBrackets ==
    /\ ~SameSignAtEnds("primary", e_in.area_ratio, e_in.gamma, Fl(101, -2), Fl(10, 0))
    /\ ~SameSignAtEnds("harness", e_in.area_ratio, e_in.gamma, Fl(101, -2), Fl(50, 0))

\* Both calls returned a supersonic root of the area-Mach relation.
BothReturnedRoot ==
    /\ e_out.primary.err = "none" /\ e_out.harness.err = "none"
    /\ IsSupersonicRoot(e_out.primary.root, e_in.area_ratio, e_in.gamma, Fl(10, 0))
    /\ IsSupersonicRoot(e_out.harness.root, e_in.area_ratio, e_in.gamma, Fl(50, 0))

\* C17 as stated: for every area ratio > 1 and gamma > 1 both solvers
\* return a supersonic root, and the two roots are the same number.
C17_SameRootAnyBracket ==
    BothSolversCalled =>
        /\ BothReturnedRoot
        /\ e_out.primary.root = e_out.harness.root

(* C17: for an area ratio > 1 and a gamma > 1 whose residual changes sign  *)
(* over both brackets ([1.01, 10] and [1.01, 50]), each solver returns a   *)
(* root M > 1 of the area-Mach relation, and the two roots differ by no    *)
(* more than the solver tolerance.                                         *)
C17_SameRootWithinBrackets ==
    (BothSolversCalled /\ RootInBothBrackets) =>
        /\ BothReturnedRoot
        /\ FLe(FAbs(FSub(e_out.primary.root, e_out.harness.root)), FMul(Two, XTOL))

\* Area ratio 100, gamma 1.245: both solvers returned a root near Mach 5.275,
\* and the two numbers are not the same.
C17_Witness ==
    /\ BothSolversCalled /\ RootInBothBrackets
    /\ e_in.area_ratio = Fl(100, 0) /\ e_in.gamma = Fl(1245, -3)
    /\ FGt(e_out.primary.root, Fl(527, -2)) /\ FLt(e_out.harness.root, Fl(528, -2))
    /\ e_out.primary.root # e_out.harness.root

\* The exit Mach number and exit pressure of a result of either script.
MachOf(r) == IF "M_e" \in DOMAIN r THEN r.M_e ELSE r.exit_Mach

PressureOf(r) == IF "P_e" \in DOMAIN r THEN r.P_e ELSE r.exit_pressure_Pa

\* Both area ratios of the pair have been solved and expanded without error.
BothExpanded ==
    /\ Called({"compute_isentropic_expansion", "compute_nozzle_flow_properties"})
    /\ e_out.results[1].err = "none" /\ e_out.results[2].err = "none"

ExpandedFrom(M, gamma, T_c, P_c, T_e, P_e) ==
    /\ T_e = FDiv(T_c, temp_factor(gamma, M))
    /\ P_e = FMul(P_c, FPow(temp_factor(gamma, M), FDiv(FNeg(gamma), FSub(gamma, One))))

\* T_e / T_c = (P_e / P_c)^((gamma - 1) / gamma), to 1e-6 relative.
IsentropicRelation(gamma, T_c, P_c, T_e, P_e) ==
    WithinRel(FDiv(T_e, T_c), FPow(FDiv(P_e, P_c), FDiv(FSub(gamma, One), gamma)), Fl(1, -6))

\* V_e is the ideal exit velocity at Mach M and temperature T_e.
VelocityFrom(M, gamma, R_specific, T_e, V_e) ==
    V_e = FMul(M, FSqrt(FMul(FMul(gamma, R_specific), T_e)))

(* C19: in every nozzle solution held or written by either script the     *)
(* exit temperature, exit pressure and ideal exit velocity are the         *)
(* isentropic expansion to the exit Mach number of the same solution, and  *)
(* T_e / T_c = (P_e / P_c)^((gamma - 1) / gamma) holds to 1e-6 relative.    *)
C19_OneExitMach ==
    /\ PrimarySolved =>
          /\ ExpandedFrom(p.M_e, pconst.GAMMA, pconst.T_CHAMBER, p.P_c, p.T_e, p.P_e)
          /\ VelocityFrom(p.M_e, pconst.GAMMA, p.R_specific, p.T_e, p.V_e)
          /\ IsentropicRelation(pconst.GAMMA, pconst.T_CHAMBER, p.P_c, p.T_e, p.P_e)
    /\ HarnessSized =>
          /\ ExpandedFrom(h.flow_props.exit_Mach, h.gamma,
                          hconst.DESIGN_INPUTS.chamber_temperature_K, h.Pc_nominal,
                          h.flow_props.exit_temperature_K, h.flow_props.exit_pressure_Pa)
          /\ VelocityFrom(h.flow_props.exit_Mach, h.gamma, h.flow_props.R_specific,
                          h.flow_props.exit_temperature_K, h.flow_props.exit_velocity_m_s)
          /\ IsentropicRelation(h.gamma, hconst.DESIGN_INPUTS.chamber_temperature_K,
                                h.Pc_nominal, h.flow_props.exit_temperature_K,
                                h.flow_props.exit_pressure_Pa)
    /\ fs.des001 # << >> =>
          ExpandedFrom(fs.des001[1].computed_results.exit_Mach_number,
                       fs.des001[1].parameters.specific_heat_ratio,
                       fs.des001[1].parameters.chamber_temperature_K,
                       fs.des001[1].parameters.chamber_pressure_Pa,
                       fs.des001[1].computed_results.exit_temperature_K,
                       fs.des001[1].computed_results.exit_pressure_Pa)
    /\ fs.ver001 # << >> =>
          ExpandedFrom(fs.ver001[1].nominal_performance.exit_Mach,
                       fs.ver001[1].computed_gas_properties.specific_heat_ratio,
                       fs.ver001[1].design_inputs.chamber_temperature_K,
                       FMul(fs.ver001[1].nominal_performance.chamber_pressure_MPa, Fl(1, 6)),
                       fs.ver001[1].nominal_performance.exit_temperature_K,
                       fs.ver001[1].nominal_performance.exit_pressure_Pa)

\* Both scripts have written a nozzle solution for an area ratio of 50.
C19_Witness ==
    /\ fs.des001 # << >> /\ fs.ver001 # << >>
    /\ pconst.DESIGN_EXPANSION_RATIO = Fl(50, 0)
    /\ FGt(fs.des001[1].computed_results.exit_Mach_number, Fl(4, 0))
    /\ FGt(fs.ver001[1].nominal_performance.exit_Mach, Fl(4, 0))

(* C20: the REQ-001 record of the verification script carries a margin     *)
(* equal to the smaller of (computed - 0.95) / 0.95 * 100 and              *)
(* (1.05 - computed) / 1.05 * 100, whether the thrust passes or fails.     *)
C20_HarnessBandMargin ==
    e_pc = "req_001" =>
        e_out.margin_percent = FMin(LowerMargin(e_in.computed, Fl(95, -2)),
                                    UpperMargin(e_in.computed, Fl(105, -2)))

\* The key under which the comparison entry holds the delta of a compared field.
DeltaKey ==
    [thrust |-> "thrust_delta_percent", specific_impulse |-> "Isp_delta_percent",
     throat_diameter |-> "throat_diameter_delta_percent",
     exit_diameter |-> "exit_diameter_delta_percent",
     mass_flow |-> "mass_flow_delta_percent",
     exit_velocity |-> "exit_velocity_delta_percent",
     exit_pressure |-> "exit_pressure_delta_percent",
     exit_temperature |-> "exit_temperature_delta_percent"]

\* The comparison entry of the verification script's written record.
WrittenComparison == fs.ver001[1].comparison_with_agent2

\* The verification script has written a record holding a comparison.
ComparisonWritten == fs.ver001 # << >> /\ ~IsNone(WrittenComparison)

(* C21: a comparison written by the verification script holds a delta for  *)
(* each of thrust, specific impulse, throat diameter, exit diameter, mass  *)
(* flow, exit velocity, exit pressure and exit temperature.                *)
C21_EightFieldsCompared ==
    ComparisonWritten =>
        \A f \in DOMAIN DeltaKey : DeltaKey[f] \in DOMAIN WrittenComparison

\* The key under which a comparison would hold the flag of a compared field.
ExceedsKey ==
    [thrust |-> "thrust_exceeds_tolerance", specific_impulse |-> "Isp_exceeds_tolerance"]

(* C22: a comparison written by the verification script holds, for thrust  *)
(* and for specific impulse, the flag exceeds_tolerance beside the two     *)
(* values and the delta, and the record holds an overall_agreement.        *)
C22_FlagsAndAggregate ==
    ComparisonWritten =>
        /\ \A f \in DOMAIN ExceedsKey :
              {DeltaKey[f], ExceedsKey[f]} \subseteq DOMAIN WrittenComparison
        /\ "overall_agreement" \in DOMAIN WrittenComparison \cup DOMAIN fs.ver001[1]

\* The delta of the comparison just made, in percent of the stored value.
ComparedDelta == FMul(FDiv(FAbs(FSub(e_in.computed, e_in.agent2)), e_in.agent2), Hundred)

\* The comparison just made was reported as a disagreement.
ReportedDisagreement ==
    CASE e_pc = "compared"        -> e_out.thrust_flag
      [] e_pc = "compared_ver002" -> ~e_out.agreement_nominal
      [] e_pc = "compared_ver012" -> e_out.discrepancy_flag

(* C23: in VER-001, VER-002 and VER-012 a comparison is reported as a      *)
(* disagreement exactly when its delta is above 5.0 %, so a delta of       *)
(* exactly 5.0 % is not a disagreement.                                    *)
C23_SameBoundary ==
    e_pc \in {"compared", "compared_ver002", "compared_ver012"} =>
        (ReportedDisagreement <=> FGt(ComparedDelta, Fl(5, 0)))

Count(calls, c) == Cardinality({i \in DOMAIN calls : calls[i] = c})

Position(calls, c) == CHOOSE i \in DOMAIN calls : calls[i] = c

PipelineComponents == {"gas_properties", "c_star", "exit_mach", "expansion", "throat_sizing"}

\* Every component once, in dependency order, the final step last.
OnceInOrder(calls, final) ==
    /\ \A c \in PipelineComponents \cup {final} : Count(calls, c) = 1
    /\ Position(calls, "gas_properties") < Position(calls, "c_star")
    /\ Position(calls, "gas_properties") < Position(calls, "exit_mach")
    /\ Position(calls, "c_star") < Position(calls, "expansion")
    /\ Position(calls, "exit_mach") < Position(calls, "expansion")
    /\ Position(calls, "expansion") < Position(calls, "throat_sizing")
    /\ Position(calls, "throat_sizing") < Position(calls, final)

(* C24: within one invocation of the sizing script or of the verification  *)
(* script, each pipeline component (gas properties, c*, exit-Mach solve,   *)
(* isentropic expansion, throat sizing) has executed exactly once when the *)
(* run ends, in dependency order and before the compliance or comparison   *)
(* step, with no re-computation.                                           *)
C24_EachComponentOnce ==
    /\ p_pc = "exited" => OnceInOrder(p.calls, "compliance")
    /\ h_pc = "done" => OnceInOrder(h.calls, "comparison")

\* The file is absent, or its record lacks one of the fields.
Lacks(files, fields) ==
    files.des001 = << >> \/ ~HasFields(files.des001[1], "computed_results", fields)

MissingFieldError(err) == err \in {"KeyError", "FileNotFoundError"}

ReaderReturns(reader) == Reads(reader) /\ e_pc = "call" /\ e_pc' = "returned"

StressFailsOnAbsentField ==
    ReaderReturns("DES-004")
        /\ Lacks(fs, {"throat_diameter_mm", "throat_area_m2", "exit_diameter_mm",
                      "nozzle_length_mm", "exit_temperature_K"})
    => MissingFieldError(e_out'.err)

MassBudgetFailsOnAbsentField ==
    ReaderReturns("VER-002")
        /\ Lacks(fs, {"specific_impulse_s", "thrust_N", "mass_flow_rate_kg_s"})
    => MissingFieldError(e_out'.err)

HarnessFailsOnAbsentField ==
    h_pc = "compare" /\ h_pc' # "compare" /\ Lacks(fs, {"thrust_N", "specific_impulse_s"})
    => h_pc' = "aborted" /\ MissingFieldError(h_err')

(* C25: a reader of the sizing script's record that needs fields of        *)
(* computed_results (VER-001, DES-004, VER-002) ends with a missing-field  *)
(* error when one of these fields, or the record itself, is absent at the  *)
(* moment it reads; it never goes on with a default or a null instead.     *)
C25_ReaderFailsOnAbsentField ==
    [][/\ StressFailsOnAbsentField
       /\ MassBudgetFailsOnAbsentField
       /\ HarnessFailsOnAbsentField]_vars

\* The comparison block is null or holds all of its values.
NullOrPopulated(block) == IsNone(block) \/ \A k \in DOMAIN block : ~IsNone(block[k])

HarnessRefersToUnbound == h_pc = "aborted" /\ h_err = "UnboundLocalError"

(* C28: a run of the verification script is not ended by the sizing        *)
(* script's file appearing or disappearing between its existence checks    *)
(* (comparison, record building, plotting, summary): it never refers to a  *)
(* comparison value it has not computed, and the comparison block it       *)
(* writes is either fully populated or null.                               *)
C28_PresenceChangeHarmless ==
    /\ ~HarnessRefersToUnbound
    /\ fs.ver001 # << >> => NullOrPopulated(fs.ver001[1].comparison_with_agent2)

HarnessSwept == h_pc \in {"compare", "save", "plots", "done"}

\* The throat area that follows from the flow properties flow.
ThroatAreaOf(flow, l, c) ==
    ThroatAreaFrom([err |-> "none", root |-> flow.exit_Mach], flow, l.Pc_nominal,
                   c.thrust_target, l.c_star, l.area_ratio, l.nozzle_efficiency).At

HoldsValue(group, val) == \E k \in DOMAIN group : group[k] = val

\* Two different fields of the group hold the two values.
HoldsBounds(group, lo, hi) ==
    \E klo, khi \in DOMAIN group : klo # khi /\ group[klo] = lo /\ group[khi] = hi

NozzleSolutionFields ==
    {"thrust_N", "specific_impulse_s", "mass_flow_rate_kg_s", "throat_diameter_mm",
     "exit_diameter_mm", "exit_Mach_number", "exit_velocity_m_s", "exit_pressure_Pa",
     "exit_temperature_K", "characteristic_velocity_m_s", "mean_molecular_weight_g_mol",
     "specific_gas_constant_J_kg_K"}

RecordHasGroups(r) ==
    /\ {"parameters", "computed_results", "requirements_compliance", "assumptions"}
           \subseteq DOMAIN r
    /\ NozzleSolutionFields \subseteq DOMAIN r.computed_results
    /\ {"REQ_001", "REQ_002"} \subseteq DOMAIN r.requirements_compliance
    /\ Len(r.assumptions) > 0

RecordHasConstants(r, c) ==
    \A val \in {c.ALPHA, c.GAMMA, c.T_CHAMBER, c.DESIGN_CHAMBER_PRESSURE,
                 c.DESIGN_EXPANSION_RATIO, c.NOZZLE_EFFICIENCY} :
        HoldsValue(r.parameters, val)

RecordHasFeedBounds(r) ==
    HoldsBounds(r.parameters, FEED_PRESSURE_MIN, FEED_PRESSURE_MAX)

(* C27: every record the sizing script writes has a parameters group with  *)
(* one field per design constant (dissociation degree, gamma, chamber      *)
(* temperature, chamber pressure, area ratio, efficiency, feed-pressure    *)
(* minimum and feed-pressure maximum), a computed_results group with the   *)
(* twelve nozzle-solution fields, a requirements_compliance map and an     *)
(* assumptions list.                                                       *)
C27_RecordComplete ==
    fs.des001 # << >> =>
        /\ RecordHasGroups(fs.des001[1])
        /\ RecordHasConstants(fs.des001[1], pconst)
        /\ RecordHasFeedBounds(fs.des001[1])

\* The feed pressure of sweep point i relative to the nominal feed pressure.
SweepRatio(i) == FDiv(h.results[i].feed_pressure_MPa, h.feed_pressure_nominal_MPa)

(* C29: in the feed-pressure sweep of the verification script every point  *)
(* has the specific impulse of the nominal point, and its thrust is the    *)
(* target thrust times feed pressure / nominal feed pressure: the target   *)
(* at the nominal feed pressure and half the target at half of it (all to  *)
(* 1e-6 relative, the rounding of the arithmetic).                         *)
C29_SweepScalesWithPressure ==
    HarnessSwept =>
        \A i \in 1..SweepPoints :
            /\ WithinRel(h.results[i].Isp_s, h.Isp_nominal, Fl(1, -6))
            /\ WithinRel(h.results[i].thrust_N, FMul(hconst.thrust_target, SweepRatio(i)),
                         Fl(1, -6))
            /\ h.results[i].feed_pressure_MPa = h.feed_pressure_nominal_MPa
                   => WithinRel(h.results[i].thrust_N, hconst.thrust_target, Fl(1, -6))
            /\ FMul(Two, h.results[i].feed_pressure_MPa) = h.feed_pressure_nominal_MPa
                   => WithinRel(h.results[i].thrust_N, FMul(Half, hconst.thrust_target),
                                Fl(1, -6))

\* The sweep has run from half the nominal feed pressure to the nominal one.
C29_Witness ==
    /\ HarnessSwept
    /\ FMul(Two, h.results[1].feed_pressure_MPa) = h.feed_pressure_nominal_MPa
    /\ h.results[SweepPoints].feed_pressure_MPa = h.feed_pressure_nominal_MPa
    /\ FLt(h.results[1].thrust_N, FMul(Fl(6, -1), hconst.thrust_target))

\* thrust = mass_flow * exit_velocity + exit_pressure * exit_area, to 1e-6 relative.
ThrustCloses(perf, exit_area_m2) ==
    WithinRel(FAdd(FMul(perf.mass_flow_rate_kg_s, perf.exit_velocity_m_s),
                   FMul(perf.exit_pressure_Pa, exit_area_m2)),
              perf.thrust_N, Fl(1, -6))

PrimaryVelocityDerated ==
    fs.des001 # << >> =>
        /\ fs.des001[1].computed_results.exit_velocity_m_s
               = FMul(p.V_e, pconst.NOZZLE_EFFICIENCY)
        /\ ThrustCloses(fs.des001[1].computed_results,
                        fs.des001[1].computed_results.exit_area_m2)

HarnessVelocityDerated ==
    fs.ver001 # << >> =>
        /\ fs.ver001[1].nominal_performance.exit_velocity_m_s
               = FMul(h.flow_props.exit_velocity_m_s, h.nozzle_efficiency)
        /\ ThrustCloses(fs.ver001[1].nominal_performance,
                        fs.ver001[1].thruster_sizing.exit_area_m2)

(* C30: exit_velocity_m_s is the same quantity in the record of the sizing *)
(* script and in the record of the verification script: the ideal exit     *)
(* velocity times the nozzle efficiency, the velocity that entered the     *)
(* thrust, so that thrust = mass_flow * exit_velocity + exit_pressure *    *)
(* exit_area holds within each record.                                     *)
C30_SameExitVelocity == PrimaryVelocityDerated /\ HarnessVelocityDerated

=============================================================================
